---- MODULE Spec2Model ----
\* Topic feed controller of the projector (secondary/projector/feed.go):
\* the gen-server actor of one topic, its control operations, the feedback
\* waits on the back-channel, and the producer side it drives.
EXTENDS Integers, Sequences, FiniteSets, TLC

\* ---------------------------------------------------------------- bounds

MaxCmds  == 2   \* commands the gen-server takes from reqch
MaxClock == 1   \* values of UnixNano()>>40 the run passes through
MaxBackch == 1  \* slots of backch used by the model (the code has 10000)
MaxPanicCmds == 2 \* a call made by one of the first MaxPanicCmds commands may panic
MaxVersion == 2     \* versions of the topologies of a bucket

\* ------------------------------------------------------------- universes

Buckets     == {"b1", "b2"}
Kvaddrs     == {"kv1"}                \* feed.kvaddrs
AllVbnos    == {0, 1, 2}              \* vbuckets a request may name
HostedVbnos == {0, 1}                 \* vbuckets hosted by feed.kvaddrs
Uuids       == {1, 2}                 \* instance ids
Raddrs      == {"e1"}                 \* endpoint addresses
RollSeqnos  == {50}                   \* seqno the producer rolls back to
RollVbnos   == {1}                    \* vbuckets the producer rolls back

\* failover log of every hosted vbucket: <<vbuuid, seqno>> pairs, last is current
FailoverLogs == [v \in HostedVbnos |-> << <<7, 0>>, <<8, 10>> >>]

\* ------------------------------------------------------------- Go maps

EmptyMap == [x \in {} |-> 0]

MapPut(m, k, v) == [x \in (DOMAIN m) \cup {k} |-> IF x = k THEN v ELSE m[x]]

MapDel(m, k) == [x \in (DOMAIN m) \ {k} |-> m[x]]

SeqToSet(s) == {s[i] : i \in 1..Len(s)}

RECURSIVE SetToSeq(_)
SetToSeq(S) ==
    IF S = {} THEN <<>>
    ELSE LET x == CHOOSE y \in S : \A z \in S : y <= z
         IN  <<x>> \o SetToSeq(S \ {x})

RECURSIVE SelectEntries(_, _)
SelectEntries(es, keep) ==
    IF es = <<>> THEN <<>>
    ELSE (IF Head(es).vbno \in keep THEN <<Head(es)>> ELSE <<>>)
         \o SelectEntries(Tail(es), keep)

\* ------------------------------------------------- protobuf.TsVbuuid

\* a timestamp is [bucket, entries], entries a sequence of
\* [vbno, seqno, vbuuid] (the parallel arrays of the wire form)
NewTsVbuuid(bucketn) == [bucket |-> bucketn, entries |-> <<>>]

GetVbnos(ts) == {ts.entries[i].vbno : i \in 1..Len(ts.entries)}

TsAppend(ts, vbno, seqno, vbuuid) ==
    [ts EXCEPT !.entries = Append(@, [vbno |-> vbno, seqno |-> seqno, vbuuid |-> vbuuid])]

SelectByVbuckets(ts, vbnos) ==
    [ts EXCEPT !.entries = SelectEntries(@, vbnos)]

FilterByVbuckets(ts, vbnos) ==
    [ts EXCEPT !.entries = SelectEntries(@, AllVbnos \ vbnos)]

\* entries of ts, with the entries of other replacing those of the same vbno
Union(ts, other) ==
    [ts EXCEPT !.entries =
        SelectEntries(@, AllVbnos \ GetVbnos(other)) \o other.entries]

\* every vbucket of ts that is hosted carries the current vbuuid
VerifyBranch(ts, vbnos, vbuuids) ==
    \A i \in 1..Len(ts.entries) :
        ts.entries[i].vbno \in vbnos => ts.entries[i].vbuuid = vbuuids[ts.entries[i].vbno]

RemoveUint16(vbno, vbnos) == vbnos \ {vbno}

\* ------------------------------------------------------------ newOpaque

\* uint32((uint64(UnixNano) >> 40) << 16), clock being UnixNano >> 40: the
\* conversion to uint32 keeps the low 16 bits of clock, shifted to the top
newOpaque(clock) == (clock % 65536) * 65536

\* ------------------------------------------------------------ the state

VARIABLES
    now,         \* UnixNano() >> 40, as read by newOpaque
    pc,          \* position of the gen-server goroutine
    op,          \* locals of the command being handled; op.asked are the
                 \* vbnos the current wait began with, op.consumed the
                 \* messages it took as matching, op.pre the topic state
                 \* when the command began
    ncmds,       \* commands taken from reqch so far
    reqTss,      \* feed.reqTss    bucket -> TsVbuuid
    rollTss,     \* feed.rollTss   bucket -> TsVbuuid
    feeders,     \* feed.feeders   bucket -> BucketFeeder (index in feederObjs)
    kvdata,      \* feed.kvdata    bucket -> kvaddr -> KVData (index in kvObjs)
    engines,     \* feed.engines   bucket -> uuid -> Engine
    endpoints,   \* feed.endpoints raddr -> RouterEndpoint (index in epObjs)
    backch,      \* feed.backch, oldest message first
    finch,       \* TRUE once feed.finch is closed
    feederObjs,  \* every BucketFeeder opened: [bucket, closed]
    kvObjs,      \* every KVData created: [bucket, kvaddr, feeder, ts, uuids, raddrs, closed]
    epObjs,      \* every endpoint the factory returned: [raddr, alive, closed]
    calls,       \* every StartVbStreams / EndVbStreams call made, in order
    pending,     \* feedback the producer still owes: [call, vbno]
    streams,     \* producer streams started and not ended: [feeder, bucket, vbno, call]
    ret,         \* the reply on respch that the caller has not read yet
    nwaits,      \* feedback waits that returned so far
    running,     \* [ok, req]: whether a start has succeeded, and the
                 \* reqTimestamps of the last start that did
    mgrStreams,  \* StreamManager.streams: the ids of the open streams
    isClosed,    \* StreamManager.isClosed
    topologies,  \* StreamManager.topologies  bucket -> IndexTopology
    run,         \* the goroutine StreamManager.run(): its position, the
                 \* locals of the topology change it handles and the admin
                 \* calls that handling has made
    mutex,       \* StreamManager.mutex: the public method or goroutine that
                 \* holds it, and whether the holder waits for it again
    diff,        \* the last application of addInstancesToChangeList
    cb           \* a count request of the scan coordinator and its CancelCb

\* the state of the Stream Manager, and the rest of what is not the feed's
smVars == <<mgrStreams, isClosed, topologies, run, mutex, diff, cb>>

vars == <<now, pc, op, ncmds, reqTss, rollTss, feeders, kvdata, engines,
          endpoints, backch, finch, feederObjs, kvObjs, epObjs, calls,
          pending, streams, ret, nwaits, running, smVars>>

\* the state of the topic feed
feedVars == <<now, pc, op, ncmds, reqTss, rollTss, feeders, kvdata, engines,
              endpoints, backch, finch, feederObjs, kvObjs, epObjs, calls,
              pending, streams, ret, nwaits, running>>

\* the part of the state a handler works on, as one value
Cur ==
    [pc |-> pc, op |-> op, reqTss |-> reqTss, rollTss |-> rollTss,
     feeders |-> feeders, kvdata |-> kvdata, engines |-> engines,
     endpoints |-> endpoints, backch |-> backch, feederObjs |-> feederObjs,
     kvObjs |-> kvObjs, epObjs |-> epObjs, calls |-> calls,
     pending |-> pending, streams |-> streams, ret |-> ret,
     nwaits |-> nwaits, running |-> running]

Assign(S) ==
    /\ pc' = S.pc
    /\ op' = S.op
    /\ reqTss' = S.reqTss
    /\ rollTss' = S.rollTss
    /\ feeders' = S.feeders
    /\ kvdata' = S.kvdata
    /\ engines' = S.engines
    /\ endpoints' = S.endpoints
    /\ backch' = S.backch
    /\ feederObjs' = S.feederObjs
    /\ kvObjs' = S.kvObjs
    /\ epObjs' = S.epObjs
    /\ calls' = S.calls
    /\ pending' = S.pending
    /\ streams' = S.streams
    /\ ret' = S.ret
    /\ nwaits' = S.nwaits
    /\ running' = S.running

\* topic state owned by the controller
TopicState(S) ==
    [reqTss |-> S.reqTss, rollTss |-> S.rollTss, feeders |-> S.feeders,
     kvdata |-> S.kvdata, engines |-> S.engines, endpoints |-> S.endpoints]

\* what a command has done so far, for the properties: the instances it
\* was given, the endpoints it pinged (address -> times), the addresses it
\* called the endpoint factory for, and the number of producer calls,
\* feeders, data paths and endpoints there were when it began
NoTrail ==
    [inst |-> <<>>, pings |-> EmptyMap, made |-> {},
     ncalls |-> 0, nfeeders |-> 0, nkvs |-> 0, neps |-> 0]

NoOp ==
    [cmd |-> "none", req |-> <<>>, idx |-> 0, opaque |-> 0, kind |-> "none",
     bucket |-> "", asked |-> {}, vbnos |-> {}, consumed |-> {},
     rollTs |-> NewTsVbuuid(""), msgs |-> <<>>, feeder |-> 0, m |-> EmptyMap,
     pre |-> EmptyMap, trail |-> NoTrail]

\* no reply waiting; a reply is [cmd, err] and, for the properties, the
\* command's request, the topic state from before the command and the
\* command's trail
NoRet ==
    [cmd |-> "none", err |-> "nil", req |-> <<>>, pre |-> EmptyMap,
     trail |-> NoTrail]

NotRunning == [ok |-> FALSE, req |-> <<>>]

\* a nil *IndexTopology and a nil *IndexDefnDistribution
NilTopology == [Bucket |-> "", Version |-> 0, Definitions |-> <<>>]
NilDefn     == [Bucket |-> "", Name |-> "", Instances |-> <<>>]

\* nobody holds s.mutex; a goroutine in that method (or "run") holds it
NoHolder == [holder |-> "", relock |-> FALSE]
Held(method) == [holder |-> method, relock |-> FALSE]

\* no call waiting for the manager's lock
NoCall == [kind |-> "none", streamId |-> "", bucket |-> "", instances |-> <<>>]

\* run() has not been started. While it handles a topology change: new is
\* the topology of the event, old the stored one it is diffed against,
\* pre the value of topologies when the event was taken, loopvar the loop
\* variable semantics of the build, stage the part of handleTopologyChange
\* it is in, call the call it is about to make under the lock, seen the
\* streams it found open, calls the admin calls made, err the result of
\* handleTopologyChange once done
NoRun ==
    [pc |-> "none", new |-> NilTopology, old |-> NilTopology,
     pre |-> EmptyMap, loopvar |-> "", stage |-> 0, call |-> NoCall,
     seen |-> {}, calls |-> <<>>, err |-> "nil", done |-> FALSE,
     boot |-> <<>>]

\* a []common.IndexState: nil, or the states listed
NilStates == [isNil |-> TRUE, list |-> <<>>]
States(list) == [isNil |-> FALSE, list |-> list]

\* addInstancesToChangeList has not been applied; once it has, changes is
\* what it returned for the other fields
NoDiff ==
    [oldDefn |-> NilDefn, newDefn |-> NilDefn, fromStates |-> NilStates,
     toStates |-> NilStates, loopvar |-> "", applied |-> FALSE,
     changes |-> <<>>]

\* no count request is being handled. While one is: handler is the
\* position of handleCountRequest, nslices the slice snapshots of the index
\* snapshot, slice the one it counts next, err and stopch its variables of
\* that name (stopch TRUE once closed), hasTimer whether req.Timeout is
\* set, signals the channels of the CancelCb that can be received from, in
\* the order in which they became so, g the position of the goroutine of
\* Run, won the case its select took, ncalls and arg the calls of callb
\* and the error the last one was given, responded what the writer got
NoCb ==
    [handler |-> "none", nslices |-> 0, slice |-> 0, err |-> "nil",
     stopch |-> FALSE, hasTimer |-> FALSE, signals |-> <<>>, g |-> "none",
     won |-> "", ncalls |-> 0, arg |-> "nil", responded |-> ""]

\* the topic feed as NewFeed leaves it
InitFeed ==
    /\ now = 0
    /\ pc = "idle"
    /\ op = NoOp
    /\ ncmds = 0
    /\ reqTss = EmptyMap
    /\ rollTss = EmptyMap
    /\ feeders = EmptyMap
    /\ kvdata = EmptyMap
    /\ engines = EmptyMap
    /\ endpoints = EmptyMap
    /\ backch = <<>>
    /\ finch = FALSE
    /\ feederObjs = <<>>
    /\ kvObjs = <<>>
    /\ epObjs = <<>>
    /\ calls = <<>>
    /\ pending = {}
    /\ streams = {}
    /\ ret = NoRet
    /\ nwaits = 0
    /\ running = NotRunning

\* the Stream Manager as NewStreamManager leaves it
InitStreamManager ==
    /\ mgrStreams = {}
    /\ isClosed = FALSE
    /\ topologies = EmptyMap
    /\ run = NoRun
    /\ mutex = NoHolder

Init == InitFeed /\ InitStreamManager /\ diff = NoDiff /\ cb = NoCb

\* ----------------------------------------------- the producer (BucketFeeder)

\* feeder.StartVbStreams(opaque, ts): one stream and one StreamRequest
\* feedback per vbucket of ts
StartVbStreams(S, feeder, opaque, ts) ==
    LET n == Len(S.calls) + 1
    IN  [S EXCEPT
          !.calls = Append(@, [kind |-> "StreamRequest", feeder |-> feeder,
                               bucket |-> ts.bucket, opaque |-> opaque, ts |-> ts]),
          !.pending = @ \cup {[call |-> n, vbno |-> v] : v \in GetVbnos(ts)},
          !.streams = @ \cup {[feeder |-> feeder, bucket |-> ts.bucket,
                               vbno |-> v, call |-> n] : v \in GetVbnos(ts)}]

\* feeder.EndVbStreams(opaque, ts): ends the streams of the vbuckets of ts,
\* one StreamEnd feedback per vbucket
EndVbStreams(S, feeder, opaque, ts) ==
    LET n == Len(S.calls) + 1
    IN  [S EXCEPT
          !.calls = Append(@, [kind |-> "StreamEnd", feeder |-> feeder,
                               bucket |-> ts.bucket, opaque |-> opaque, ts |-> ts]),
          !.pending = @ \cup {[call |-> n, vbno |-> v] : v \in GetVbnos(ts)},
          !.streams = {s \in @ : ~(s.feeder = feeder /\ s.vbno \in GetVbnos(ts))}]

\* OpenBucketFeed(bucket)
OpenBucketFeed(S, bucketn) ==
    [S EXCEPT !.feederObjs = Append(@, [bucket |-> bucketn, closed |-> FALSE])]

\* feeder.CloseFeed(): tears the connection and its streams down
CloseFeed(S, feeder) ==
    [S EXCEPT !.feederObjs[feeder].closed = TRUE,
              !.streams = {s \in @ : s.feeder # feeder}]

\* vbuckets hosted by feed.kvaddrs and their current vbuuids
bucketDetails ==
    [vbnos |-> HostedVbnos,
     vbuuids |-> [v \in HostedVbnos |->
                    FailoverLogs[v][Len(FailoverLogs[v])][1]]]

\* outcomes of the producer calls made by one bucketFeed: all succeed, or
\* one of those before the stream calls (bucket.Refresh, GetVBmap,
\* GetFailoverLogs) fails, or it panics
FeedOutcomes == {"ok", "err", "panic"}

\* the outcomes open to the n-th command
OutcomesFor(n) ==
    IF n <= MaxPanicCmds THEN FeedOutcomes ELSE FeedOutcomes \ {"panic"}

bucketFeed(S, opaque, stop, start, reqTs, out) ==
    LET bucketn == reqTs.bucket
        d  == bucketDetails
        ts == SelectByVbuckets(reqTs, d.vbnos)
        ok == bucketn \in DOMAIN S.feeders
        S1 == IF ok THEN S ELSE OpenBucketFeed(S, bucketn)
        feeder == IF ok THEN S.feeders[bucketn] ELSE Len(S1.feederObjs)
        S2 == IF stop THEN EndVbStreams(S1, feeder, opaque, ts) ELSE S1
        S3 == IF start THEN StartVbStreams(S2, feeder, opaque, ts) ELSE S2
    IN  IF out = "panic"
          THEN [err |-> "panic", feeder |-> 0, S |-> S]
        ELSE IF out = "err"
          THEN [err |-> "producerError", feeder |-> 0, S |-> S]
        ELSE IF start /\ ~VerifyBranch(reqTs, d.vbnos, d.vbuuids)
          THEN [err |-> "invalidVbucketBranch", feeder |-> 0, S |-> S]
        ELSE [err |-> "nil", feeder |-> feeder, S |-> S3]

\* ------------------------------------------------------------ data path

\* NewKVData for every kvaddr; the map kvaddr -> kvdata is the result .m
RECURSIVE NewKVDatas(_, _, _, _, _)
NewKVDatas(S, addrs, bucketn, feeder, reqTs) ==
    IF addrs = {} THEN [S |-> S, m |-> EmptyMap]
    ELSE LET a  == CHOOSE x \in addrs : TRUE
             r  == NewKVDatas(S, addrs \ {a}, bucketn, feeder, reqTs)
             kv == [bucket |-> bucketn, kvaddr |-> a, feeder |-> feeder,
                    ts |-> reqTs,
                    uuids |-> IF bucketn \in DOMAIN S.engines
                                THEN DOMAIN S.engines[bucketn] ELSE {},
                    raddrs |-> DOMAIN S.endpoints, closed |-> FALSE]
         IN  [S |-> [r.S EXCEPT !.kvObjs = Append(@, kv)],
              m |-> MapPut(r.m, a, Len(r.S.kvObjs) + 1)]

startDataPath(S, bucketn, feeder, reqTs) ==
    NewKVDatas(S, Kvaddrs, bucketn, feeder, reqTs)

\* kvdata.AddEngines(engines, endpoints) on every KVData of ids
KVAddEngines(S, ids, uuids) ==
    [S EXCEPT !.kvObjs = [i \in 1..Len(@) |->
        IF i \in ids
          THEN [@[i] EXCEPT !.uuids = uuids, !.raddrs = DOMAIN S.endpoints]
          ELSE @[i]]]

KVDeleteEngines(S, ids, uuids) ==
    [S EXCEPT !.kvObjs = [i \in 1..Len(@) |->
        IF i \in ids THEN [@[i] EXCEPT !.uuids = @ \ uuids] ELSE @[i]]]

KVUpdateTs(S, ids, ts) ==
    [S EXCEPT !.kvObjs = [i \in 1..Len(@) |->
        IF i \in ids THEN [@[i] EXCEPT !.ts = ts] ELSE @[i]]]

KVClose(S, ids) ==
    [S EXCEPT !.kvObjs = [i \in 1..Len(@) |->
        IF i \in ids THEN [@[i] EXCEPT !.closed = TRUE] ELSE @[i]]]

\* the KVData handles of a bucket
KVIds(S, bucketn) ==
    IF bucketn \in DOMAIN S.kvdata
      THEN {S.kvdata[bucketn][a] : a \in DOMAIN S.kvdata[bucketn]} ELSE {}

\* ------------------------------------------------------------ endpoints

\* endpoint.Ping()
Ping(S, id) == S.epObjs[id].alive /\ ~S.epObjs[id].closed

\* what feed.epFactory returns: an endpoint, (nil, nil), or an error
FactoryOutcomes == {"new", "nil", "err"}

RECURSIVE NewEndpoints(_, _)
NewEndpoints(S, raddrs) ==
    IF raddrs = {} THEN S
    ELSE LET a  == CHOOSE x \in raddrs : TRUE
             S1 == [S EXCEPT !.epObjs = Append(@, [raddr |-> a, alive |-> TRUE,
                                                   closed |-> FALSE])]
         IN  NewEndpoints([S1 EXCEPT !.endpoints = MapPut(@, a, Len(S1.epObjs))],
                          raddrs \ {a})

\* addresses for which the factory is called
NeedEndpoint(S, raddrs) ==
    {a \in raddrs : a \notin DOMAIN S.endpoints \/ ~Ping(S, S.endpoints[a])}

startEndpoints(S, routers, fout) ==
    LET raddrs == UNION {routers[u] : u \in DOMAIN routers}
        need   == NeedEndpoint(S, raddrs)
        S1     == [S EXCEPT !.op.trail.made = @ \cup need]
    IN  IF need = {} THEN [err |-> "nil", S |-> S]
        ELSE IF fout = "err" THEN [err |-> "factoryError", S |-> S1]
        ELSE IF fout = "nil" THEN [err |-> "nil", S |-> S1]
        ELSE [err |-> "nil", S |-> NewEndpoints(S1, need)]

\* subscribers comparing the sizes of the two maps only
subscribers_LenOnly(req) ==
    IF Cardinality(DOMAIN req.evaluators) # Cardinality(DOMAIN req.routers)
      THEN "inconsistentFeed"
    ELSE "nil"

\* a request's subscribers: evaluators uuid -> bucket, routers uuid -> raddrs
subscribers(req) ==
    IF Cardinality(DOMAIN req.evaluators) # Cardinality(DOMAIN req.routers)
      THEN "inconsistentFeed"
    ELSE IF \E uuid \in DOMAIN req.evaluators : uuid \notin DOMAIN req.routers
      THEN "inconsistentFeed"
    ELSE "nil"

RECURSIVE InstallEngines(_, _, _)
InstallEngines(engs, req, uuids) ==
    IF uuids = {} THEN engs
    ELSE LET uuid    == CHOOSE x \in uuids : TRUE
             bucketn == req.evaluators[uuid]
             m       == IF bucketn \in DOMAIN engs THEN engs[bucketn] ELSE EmptyMap
             engine  == [uuid |-> uuid, bucket |-> bucketn,
                         raddrs |-> IF uuid \in DOMAIN req.routers
                                      THEN req.routers[uuid] ELSE {}]
         IN  InstallEngines(MapPut(engs, bucketn, MapPut(m, uuid, engine)),
                            req, uuids \ {uuid})

processSubscribers(S0, req, fout) ==
    LET S == [S0 EXCEPT !.op.trail.inst = req]
    IN
    IF subscribers(req) # "nil" THEN [err |-> subscribers(req), S |-> S]
    ELSE LET r == startEndpoints(S, req.routers, fout)
         IN  IF r.err # "nil" THEN r
             ELSE [err |-> "nil",
                   S |-> [r.S EXCEPT !.engines =
                            InstallEngines(@, req, DOMAIN req.evaluators)]]

\* ------------------------------------------------- the feedback waits

\* a message as PostStreamRequest / PostStreamEnd put it on backch has
\* wrap = 0: []interface{}{cmd}; wrap counts the slices around that
Wrap(msgs) == [i \in 1..Len(msgs) |-> [msgs[i] EXCEPT !.wrap = @ + 1]]

\* waitStreamRequests whose callback drops the first awaited vbucket for
\* any matching message, whatever its vbno
waitStreamRequestsCb_AnyVbno(o, msg) ==
    IF msg.wrap = 0 /\ msg.kind = "StreamRequest"
       /\ msg.bucket = o.bucket /\ msg.opaque = o.opaque
      THEN LET rollTs == IF msg.status = "ROLLBACK"
                           THEN TsAppend(o.rollTs, msg.vbno, msg.seqno, msg.vbuuid)
                           ELSE o.rollTs
               vbnos  == o.vbnos \ {CHOOSE v \in o.vbnos : \A w \in o.vbnos : v <= w}
           IN  [res |-> IF vbnos = {} THEN "done" ELSE "ok",
                op  |-> [o EXCEPT !.rollTs = rollTs, !.vbnos = vbnos]]
      ELSE [res |-> "skip", op |-> o]

\* callback of waitStreamRequests
waitStreamRequestsCb(o, msg) ==
    IF msg.wrap = 0 /\ msg.kind = "StreamRequest"
       /\ msg.bucket = o.bucket /\ msg.opaque = o.opaque
      THEN LET rollTs == IF msg.status = "ROLLBACK"
                           THEN TsAppend(o.rollTs, msg.vbno, msg.seqno, msg.vbuuid)
                           ELSE o.rollTs
               vbnos  == RemoveUint16(msg.vbno, o.vbnos)
           IN  [res |-> IF vbnos = {} THEN "done" ELSE "ok",
                op  |-> [o EXCEPT !.rollTs = rollTs, !.vbnos = vbnos]]
      ELSE [res |-> "skip", op |-> o]

\* callback of waitStreamEnds
waitStreamEndsCb(o, msg) ==
    IF msg.wrap = 0 /\ msg.kind = "StreamEnd"
       /\ msg.bucket = o.bucket /\ msg.opaque = o.opaque
      THEN LET vbnos == RemoveUint16(msg.vbno, o.vbnos)
           IN  [res |-> IF vbnos = {} THEN "done" ELSE "ok",
                op  |-> [o EXCEPT !.vbnos = vbnos]]
      ELSE [res |-> "skip", op |-> o]

callb(o, msg) ==
    IF o.kind = "StreamRequest" THEN waitStreamRequestsCb(o, msg)
    ELSE waitStreamEndsCb(o, msg)

\* waitOnFeedback returning from its timeout case without the re-queue
Requeued_NotOnTimeout(msgs, err) == IF err = "nil" THEN Wrap(msgs) ELSE <<>>

\* the messages waitOnFeedback puts back on backch when its loop ends
Requeued(msgs, err) == Wrap(msgs)

\* ------------------------------------------------- the control operations

\* genServer with a deferred function that recovers and returns without
\* calling feed.shutdown()
Recover_NoShutdown(S) ==
    [S EXCEPT !.pc = "recovered", !.op = NoOp]

\* a panic unwinds handleCommand into the deferred function of genServer,
\* which recovers and calls feed.shutdown(); no reply is sent
Recover(S) ==
    [S EXCEPT !.pc = "recover", !.op = [NoOp EXCEPT !.cmd = S.op.cmd]]

\* the reply on respch; the gen-server goes back to reading reqch
Return(S, err) ==
    IF err = "panic" THEN Recover(S)
    ELSE [S EXCEPT !.pc = "idle",
                   !.ret = [cmd |-> S.op.cmd, err |-> err, req |-> S.op.req,
                            pre |-> S.op.pre, trail |-> S.op.trail],
                   !.op = NoOp,
                   !.running = IF S.op.cmd = "start" /\ err = "nil"
                                 THEN [ok |-> TRUE, req |-> S.op.req] ELSE @]

RECURSIVE Loop(_, _)
RECURSIVE AfterWait(_, _)

\* waitStreamRequests / waitStreamEnds without the test for an empty vbnos
BeginWait_AlwaysWait(S, kind, bucketn, vbnos, out) ==
    [S EXCEPT !.op.kind = kind, !.op.bucket = bucketn,
              !.op.asked = vbnos, !.op.vbnos = vbnos,
              !.op.consumed = {}, !.op.msgs = <<>>,
              !.op.rollTs = NewTsVbuuid(bucketn), !.pc = "wait"]

\* waitStreamRequests / waitStreamEnds up to their select: an empty vbnos
\* returns at once
BeginWait(S, kind, bucketn, vbnos, out) ==
    LET S1 == [S EXCEPT !.op.kind = kind, !.op.bucket = bucketn,
                        !.op.asked = vbnos, !.op.vbnos = vbnos,
                        !.op.consumed = {}, !.op.msgs = <<>>,
                        !.op.rollTs = NewTsVbuuid(bucketn)]
    IN  IF vbnos = {}
          THEN AfterWait([S1 EXCEPT !.nwaits = @ + 1], out)
          ELSE [S1 EXCEPT !.pc = "wait"]

\* end of waitOnFeedback: the skipped messages go back on backch, which
\* blocks the gen-server when backch has no room for them
WaitExit(S, err, out) ==
    LET back == Requeued(S.op.msgs, err)
        S1 == [S EXCEPT !.backch = @ \o back, !.nwaits = @ + 1]
    IN  IF Len(S.backch) + Len(back) > MaxBackch
          THEN [S EXCEPT !.pc = "blocked",
                         !.backch = @ \o SubSeq(back, 1, MaxBackch - Len(@))]
        ELSE IF err = "nil" THEN AfterWait(S1, out)
        ELSE Return(S1, err)

\* body of the loop of start and of addBuckets, up to the wait
startBucket(S, out) ==
    LET reqTs   == S.op.req[S.op.idx]
        bucketn == reqTs.bucket
        r == bucketFeed(S, S.op.opaque, FALSE, TRUE, reqTs, out)
        d == startDataPath(r.S, bucketn, r.feeder, reqTs)
    IN  IF r.err # "nil" THEN Return(r.S, r.err)
        ELSE BeginWait([d.S EXCEPT !.op.feeder = r.feeder, !.op.m = d.m],
                       "StreamRequest", bucketn, GetVbnos(reqTs), out)

\* ... and after the wait
startBucketDone(S) ==
    LET reqTs   == S.op.req[S.op.idx]
        bucketn == reqTs.bucket
    IN  [S EXCEPT !.reqTss  = MapPut(@, bucketn, reqTs),
                  !.rollTss = MapPut(@, bucketn, S.op.rollTs),
                  !.feeders = MapPut(@, bucketn, S.op.feeder),
                  !.kvdata  = MapPut(@, bucketn, S.op.m),
                  !.op.idx  = @ + 1]

\* restartVbuckets looking the bucket up only after the call to bucketFeed
restartBucket_CheckAfterFeed(S, out) ==
    LET restartTs == S.op.req[S.op.idx]
        bucketn   == restartTs.bucket
        r == bucketFeed(S, S.op.opaque, TRUE, FALSE, restartTs, out)
    IN  IF r.err # "nil" THEN Return(r.S, r.err)
        ELSE IF bucketn \notin DOMAIN S.reqTss \/ bucketn \notin DOMAIN S.kvdata
          THEN Return(r.S, "invalidBucket")
        ELSE BeginWait(r.S, "StreamEnd", bucketn, GetVbnos(restartTs), out)

\* body of the loop of restartVbuckets, up to its first wait
restartBucket(S, out) ==
    LET restartTs == S.op.req[S.op.idx]
        bucketn   == restartTs.bucket
        r == bucketFeed(S, S.op.opaque, TRUE, FALSE, restartTs, out)
    IN  IF bucketn \notin DOMAIN S.reqTss \/ bucketn \notin DOMAIN S.kvdata
          THEN Return(S, "invalidBucket")
        ELSE IF r.err # "nil" THEN Return(r.S, r.err)
        ELSE BeginWait(r.S, "StreamEnd", bucketn, GetVbnos(restartTs), out)

\* restartVbuckets starting the streams again without x.UpdateTs
restartBucketEnded_NoUpdateTs(S, out) ==
    LET restartTs == S.op.req[S.op.idx]
        bucketn   == restartTs.bucket
        r  == bucketFeed(S, S.op.opaque, FALSE, TRUE, restartTs, out)
    IN  IF r.err # "nil" THEN Return(r.S, r.err)
        ELSE BeginWait(r.S, "StreamRequest", bucketn, GetVbnos(restartTs), out)

\* restartVbuckets between its two waits
restartBucketEnded(S, out) ==
    LET restartTs == S.op.req[S.op.idx]
        bucketn   == restartTs.bucket
        S1 == KVUpdateTs(S, {S.kvdata[bucketn][a] : a \in Kvaddrs}, restartTs)
        r  == bucketFeed(S1, S.op.opaque, FALSE, TRUE, restartTs, out)
    IN  IF r.err # "nil" THEN Return(r.S, r.err)
        ELSE BeginWait(r.S, "StreamRequest", bucketn, GetVbnos(restartTs), out)

restartBucketDone(S) ==
    LET restartTs == S.op.req[S.op.idx]
        bucketn   == restartTs.bucket
    IN  [S EXCEPT !.reqTss  = MapPut(@, bucketn, Union(S.reqTss[bucketn], restartTs)),
                  !.rollTss = MapPut(@, bucketn, S.op.rollTs),
                  !.op.idx  = @ + 1]

shutdownBucket(S, out) ==
    LET shutTs  == S.op.req[S.op.idx]
        bucketn == shutTs.bucket
        r == bucketFeed(S, S.op.opaque, TRUE, FALSE, shutTs, out)
    IN  IF bucketn \notin DOMAIN S.reqTss THEN Return(S, "invalidBucket")
        ELSE IF r.err # "nil" THEN Return(r.S, r.err)
        ELSE BeginWait(r.S, "StreamEnd", bucketn, GetVbnos(shutTs), out)

shutdownBucketDone(S) ==
    LET shutTs  == S.op.req[S.op.idx]
        bucketn == shutTs.bucket
    IN  [S EXCEPT !.reqTss = MapPut(@, bucketn,
                     FilterByVbuckets(S.reqTss[bucketn], GetVbnos(shutTs))),
                  !.op.idx = @ + 1]

delBucket(S, out) ==
    LET bucketn == S.op.req[S.op.idx]
        r == bucketFeed(S, S.op.opaque, TRUE, FALSE, S.reqTss[bucketn], out)
    IN  IF bucketn \notin DOMAIN S.kvdata THEN Return(S, "invalidBucket")
        ELSE IF r.err # "nil" THEN Return(r.S, r.err)
        ELSE BeginWait(r.S, "StreamEnd", bucketn, GetVbnos(S.reqTss[bucketn]), out)

delBucketDone(S) ==
    LET bucketn == S.op.req[S.op.idx]
        S1 == KVClose(S, KVIds(S, bucketn))
    IN  [S1 EXCEPT !.reqTss  = MapDel(@, bucketn),
                   !.rollTss = MapDel(@, bucketn),
                   !.feeders = MapDel(@, bucketn),
                   !.kvdata  = MapDel(@, bucketn),
                   !.engines = MapDel(@, bucketn),
                   !.op.idx  = @ + 1]

\* the for loop over the request's timestamps (buckets), from element
\* op.idx up to the next select or the return
Loop(S, out) ==
    IF S.op.idx > Len(S.op.req) THEN Return(S, "nil")
    ELSE IF S.op.cmd \in {"start", "addBuckets"} THEN startBucket(S, out)
    ELSE IF S.op.cmd = "restartVbuckets" THEN restartBucket(S, out)
    ELSE IF S.op.cmd = "shutdownVbuckets" THEN shutdownBucket(S, out)
    ELSE delBucket(S, out)

\* what follows a wait that returned nil
AfterWait(S, out) ==
    IF S.op.cmd \in {"start", "addBuckets"} THEN Loop(startBucketDone(S), out)
    ELSE IF S.op.cmd = "restartVbuckets"
      THEN IF S.op.kind = "StreamEnd" THEN restartBucketEnded(S, out)
           ELSE Loop(restartBucketDone(S), out)
    ELSE IF S.op.cmd = "shutdownVbuckets" THEN Loop(shutdownBucketDone(S), out)
    ELSE Loop(delBucketDone(S), out)

\* ------------------------------------------------------------- requests

\* a request timestamp naming vbnos, all with the given vbuuid and seqno 100
MkTs(bucketn, vbnos, vbuuid) ==
    [bucket |-> bucketn,
     entries |-> [i \in 1..Cardinality(vbnos) |->
                    [vbno |-> SetToSeq(vbnos)[i], seqno |-> 100,
                     vbuuid |-> vbuuid]]]

\* the vbuuid a request names: the current one of the failover log, or the
\* one before it
CurrentVbuuid == FailoverLogs[0][2][1]
StaleVbuuid   == FailoverLogs[0][1][1]

Ts(bucketn, vbnos) == MkTs(bucketn, vbnos, CurrentVbuuid)

NoInstances == [evaluators |-> EmptyMap, routers |-> EmptyMap]

\* instance 1 on bucket b1, routed to endpoint e1
Instance1 ==
    [evaluators |-> [u \in {1} |-> "b1"], routers |-> [u \in {1} |-> {"e1"}]]

\* an evaluator for instance 1 and a router for instance 2
Inconsistent ==
    [evaluators |-> [u \in {1} |-> "b1"], routers |-> [u \in {2} |-> {"e1"}]]

\* an evaluator for instance 1 and no router
InconsistentSize ==
    [evaluators |-> [u \in {1} |-> "b1"], routers |-> EmptyMap]

\* instance 1 again, its evaluator now on bucket b2
Instance1OnB2 ==
    [evaluators |-> [u \in {1} |-> "b2"], routers |-> [u \in {1} |-> {"e1"}]]

\* MutationTopicRequest: reqTimestamps and instances
StartInputs ==
    {[req |-> <<Ts("b1", {0, 1})>>, inst |-> Instance1],
     [req |-> <<Ts("b1", {0})>>, inst |-> NoInstances],
     [req |-> <<Ts("b1", {0}), Ts("b2", {0})>>, inst |-> NoInstances],
     [req |-> <<Ts("b1", {0, 2})>>, inst |-> NoInstances],
     [req |-> <<Ts("b1", {})>>, inst |-> NoInstances],
     [req |-> <<MkTs("b1", {0}, StaleVbuuid)>>, inst |-> NoInstances],
     [req |-> <<Ts("b1", {0})>>, inst |-> Inconsistent],
     [req |-> <<Ts("b2", {0})>>, inst |-> Instance1]}

\* AddBucketsRequest
AddBucketsInputs ==
    {[req |-> <<Ts("b2", {0})>>, inst |-> NoInstances],
     [req |-> <<Ts("b1", {0})>>, inst |-> NoInstances],
     [req |-> <<Ts("b2", {0})>>, inst |-> InconsistentSize]}

\* RestartVbucketsRequest.restartTimestamps
RestartInputs ==
    {<<Ts("b1", {0})>>, <<Ts("b1", {0, 1})>>, <<Ts("b2", {0})>>,
     <<MkTs("b1", {0}, StaleVbuuid)>>}

\* ShutdownVbucketsRequest.shutdownTimestamps
ShutdownInputs == {<<Ts("b1", {0})>>, <<Ts("b1", {0}), Ts("b2", {0})>>}

\* DelBucketsRequest.buckets
BucketListInputs == {<<"b1">>, <<"b2">>, <<"b1", "b2">>}

\* AddInstancesRequest.instances
InstanceInputs == {Instance1, Instance1OnB2, Inconsistent, InconsistentSize}

\* DelInstancesRequest.instanceIds
InstanceIdInputs == {{1}}

\* RepairEndpointsRequest.endpoints
RaddrListInputs == {<<"e1">>}

\* ---------------------------------------------------- the public methods

\* the public method that sends each command
Method ==
    [c \in {"start", "restartVbuckets", "shutdownVbuckets", "addBuckets",
            "delBuckets", "addInstances", "delInstances", "repairEndpoints",
            "shutdown", "getStatistics"} |->
       CASE c = "start"            -> "MutationTopic"
         [] c = "restartVbuckets"  -> "RestartVbuckets"
         [] c = "shutdownVbuckets" -> "ShutdownVbuckets"
         [] c = "addBuckets"       -> "AddBuckets"
         [] c = "delBuckets"       -> "DelBuckets"
         [] c = "addInstances"     -> "AddInstances"
         [] c = "delInstances"     -> "DelInstances"
         [] c = "repairEndpoints"  -> "RepairEndpoints"
         [] c = "shutdown"         -> "Shutdown"
         [] OTHER                  -> "GetStatistics"]

Methods == {Method[c] : c \in DOMAIN Method}

\* c.FailsafeOp(reqch, respch, cmd, finch) when finch is closed and respch
\* has no reply: no response, and the channel-closed error
FailsafeOpClosed == [resp |-> <<>>, err |-> "closed"]

\* c.OpError(err, resp, idx): err, or the error at resp[idx]
OpError(err, resp, idx) == IF err # "nil" THEN err ELSE resp[idx + 1]

\* what a public method gives its caller for FailsafeOp's result r:
\* MutationTopic, RestartVbuckets, AddBuckets and GetStatistics take
\* resp[0] whatever err is, which panics in the caller (index out of range)
\* when there is no response
MethodReturn(method, r) ==
    IF method \in {"MutationTopic", "RestartVbuckets", "AddBuckets"}
      THEN IF Len(r.resp) < 1 THEN "callerPanic" ELSE OpError(r.err, r.resp, 1)
    ELSE IF method = "GetStatistics"
      THEN IF Len(r.resp) < 1 THEN "callerPanic" ELSE "nil"
    ELSE IF method = "Shutdown" THEN r.err
    ELSE OpError(r.err, r.resp, 0)

\* -------------------------------------------------------------- actions

\* wall-clock time passes: UnixNano() >> 40 changes
Tick ==
    /\ pc = "idle"
    /\ ret = NoRet
    /\ now < MaxClock
    /\ now' = now + 1
    /\ UNCHANGED <<pc, op, ncmds, reqTss, rollTss, feeders, kvdata, engines,
                   endpoints, backch, finch, feederObjs, kvObjs, epObjs, calls,
                   pending, streams, ret, nwaits, running, smVars>>

\* the message a data path posts for a pending feedback
Feedback(p, status, seqno) ==
    LET c == calls[p.call]
        e == CHOOSE x \in SeqToSet(c.ts.entries) : x.vbno = p.vbno
    IN  [kind |-> c.kind, bucket |-> c.bucket, opaque |-> c.opaque,
         status |-> status, vbno |-> p.vbno,
         vbuuid |-> IF c.kind = "StreamEnd" THEN 0
                    ELSE IF status = "ROLLBACK" THEN bucketDetails.vbuuids[p.vbno]
                    ELSE e.vbuuid,
         seqno |-> IF c.kind = "StreamEnd" THEN 0
                   ELSE IF status = "ROLLBACK" THEN seqno ELSE e.seqno,
         wrap |-> 0]

\* PostStreamRequest / PostStreamEnd: a data path posts on backch. Nothing
\* reads backch outside a wait, so a post made outside one is taken when
\* the next wait has begun: it reaches backch behind the same messages
Post ==
    /\ pc = "wait"
    /\ ~finch
    /\ Len(backch) < MaxBackch
    /\ \E p \in pending, status \in {"SUCCESS", "ROLLBACK"}, seqno \in RollSeqnos :
         /\ ~feederObjs[calls[p.call].feeder].closed
         /\ status = "ROLLBACK" =>
               calls[p.call].kind = "StreamRequest" /\ p.vbno \in RollVbnos
         /\ backch' = Append(backch, Feedback(p, status, seqno))
         /\ pending' = pending \ {p}
    /\ UNCHANGED <<now, pc, op, ncmds, reqTss, rollTss, feeders, kvdata, engines,
                   endpoints, finch, feederObjs, kvObjs, epObjs, calls,
                   streams, ret, nwaits, running, smVars>>

\* a downstream endpoint stops answering Ping
EndpointDown ==
    /\ pc = "idle"
    /\ ret = NoRet
    /\ \E i \in 1..Len(epObjs) :
         /\ epObjs[i].alive /\ ~epObjs[i].closed
         /\ epObjs' = [epObjs EXCEPT ![i].alive = FALSE]
    /\ UNCHANGED <<now, pc, op, ncmds, reqTss, rollTss, feeders, kvdata, engines,
                   endpoints, backch, finch, feederObjs, kvObjs, calls,
                   pending, streams, ret, nwaits, running, smVars>>

\* the caller of a synchronous call reads the reply from respch
GetReply ==
    /\ ret # NoRet
    /\ ret' = NoRet
    /\ UNCHANGED <<now, pc, op, ncmds, reqTss, rollTss, feeders, kvdata, engines,
                   endpoints, backch, finch, feederObjs, kvObjs, epObjs, calls,
                   pending, streams, nwaits, running, smVars>>

\* a public method called after finch is closed: FailsafeOp returns by
\* its finch case, or puts the command on reqch, which nothing reads any
\* more, and then returns by finch
ClosedCall ==
    /\ finch
    /\ ret = NoRet
    /\ ncmds < MaxCmds
    /\ ncmds' = ncmds + 1
    /\ \E method \in Methods :
         ret' = [NoRet EXCEPT !.cmd = method,
                              !.err = MethodReturn(method, FailsafeOpClosed),
                              !.pre = TopicState(Cur)]
    /\ UNCHANGED <<now, pc, op, reqTss, rollTss, feeders, kvdata, engines,
                   endpoints, backch, finch, feederObjs, kvObjs, epObjs, calls,
                   pending, streams, nwaits, running, smVars>>

\* genServer takes a command from reqch; the callers make their
\* synchronous calls one after the other
TakeCmd ==
    /\ pc = "idle"
    /\ ret = NoRet
    /\ ~finch
    /\ ncmds < MaxCmds
    /\ ncmds' = ncmds + 1
    /\ UNCHANGED <<now, finch, smVars>>

BeginOp(S, cmd, req) ==
    [S EXCEPT !.op = [NoOp EXCEPT !.cmd = cmd, !.req = req, !.idx = 1,
                                  !.opaque = newOpaque(now),
                                  !.pre = TopicState(Cur),
                                  !.trail = [NoTrail EXCEPT
                                     !.ncalls = Len(S.calls),
                                     !.nfeeders = Len(S.feederObjs),
                                     !.nkvs = Len(S.kvObjs),
                                     !.neps = Len(S.epObjs)]]]

start(req, inst, fout, out) ==
    LET r == processSubscribers(BeginOp(Cur, "start", req), inst, fout)
    IN  IF r.err # "nil" THEN Return(r.S, r.err) ELSE Loop(r.S, out)

addBuckets(req, inst, fout, out) ==
    LET r == processSubscribers(BeginOp(Cur, "addBuckets", req), inst, fout)
    IN  IF r.err # "nil" THEN Return(r.S, r.err) ELSE Loop(r.S, out)

restartVbuckets(req, out) == Loop(BeginOp(Cur, "restartVbuckets", req), out)

shutdownVbuckets(req, out) == Loop(BeginOp(Cur, "shutdownVbuckets", req), out)

delBuckets(req, out) == Loop(BeginOp(Cur, "delBuckets", req), out)

RECURSIVE PushEngines(_, _)
PushEngines(S, bs) ==
    IF bs = {} THEN S
    ELSE LET b == CHOOSE x \in bs : TRUE
         IN  PushEngines(
               KVAddEngines(S, KVIds(S, b),
                 IF b \in DOMAIN S.engines THEN DOMAIN S.engines[b] ELSE {}),
               bs \ {b})

addInstances(inst, fout) ==
    LET r == processSubscribers(BeginOp(Cur, "addInstances", <<>>), inst, fout)
    IN  IF r.err # "nil" THEN Return(r.S, r.err)
        ELSE Return(PushEngines(r.S, DOMAIN r.S.engines), "nil")

RECURSIVE DropEngines(_, _, _)
DropEngines(S, bs, instanceIds) ==
    IF bs = {} THEN S
    ELSE LET b == CHOOSE x \in bs : TRUE
         IN  DropEngines(
               KVDeleteEngines(S, KVIds(S, b), DOMAIN S.engines[b] \cap instanceIds),
               bs \ {b}, instanceIds)

delInstances(instanceIds) ==
    LET S  == BeginOp(Cur, "delInstances", <<>>)
        S1 == DropEngines(S, DOMAIN S.engines, instanceIds)
        fengines == [b \in DOMAIN S.engines |->
                       [u \in DOMAIN S.engines[b] \ instanceIds |-> S.engines[b][u]]]
    IN  Return([S1 EXCEPT !.engines = fengines], "nil")

\* the loop body of repairEndpoints with the factory called for every
\* address, whatever Ping says
repairEndpoint_AlwaysCreate(S, raddr, fout) ==
    LET ok == raddr \in DOMAIN S.endpoints
        n  == IF raddr \in DOMAIN S.op.trail.pings
                THEN S.op.trail.pings[raddr] ELSE 0
        S1 == IF ok THEN [S EXCEPT !.op.trail.pings = MapPut(@, raddr, n + 1)]
              ELSE S
        S2 == [S1 EXCEPT !.op.trail.made = @ \cup {raddr}]
    IN  IF fout = "err" THEN [err |-> "factoryError", S |-> S2]
        ELSE IF fout = "nil" THEN [err |-> "nil", S |-> S2]
        ELSE [err |-> "nil", S |-> NewEndpoints(S2, {raddr})]

\* the loop body of repairEndpoints, for one address of the request
repairEndpoint(S, raddr, fout) ==
    LET ok == raddr \in DOMAIN S.endpoints
        n  == IF raddr \in DOMAIN S.op.trail.pings
                THEN S.op.trail.pings[raddr] ELSE 0
        S1 == IF ok THEN [S EXCEPT !.op.trail.pings = MapPut(@, raddr, n + 1)]
              ELSE S
        S2 == [S1 EXCEPT !.op.trail.made = @ \cup {raddr}]
    IN  IF ok /\ Ping(S, S.endpoints[raddr]) THEN [err |-> "nil", S |-> S1]
        ELSE IF fout = "err" THEN [err |-> "factoryError", S |-> S2]
        ELSE IF fout = "nil" THEN [err |-> "nil", S |-> S2]
        ELSE [err |-> "nil", S |-> NewEndpoints(S2, {raddr})]

RECURSIVE repairEndpointsLoop(_, _, _)
repairEndpointsLoop(S, raddrs, fout) ==
    IF raddrs = <<>> THEN [err |-> "nil", S |-> S]
    ELSE LET r == repairEndpoint(S, Head(raddrs), fout)
         IN  IF r.err # "nil" THEN r
             ELSE repairEndpointsLoop(r.S, Tail(raddrs), fout)

repairEndpoints(raddrs, fout) ==
    LET r == repairEndpointsLoop(BeginOp(Cur, "repairEndpoints", raddrs),
                                 raddrs, fout)
    IN  IF r.err # "nil" THEN Return(r.S, r.err)
        ELSE Return(PushEngines(r.S, DOMAIN r.S.kvdata), "nil")

CmdStart ==
    /\ TakeCmd
    /\ \E in \in StartInputs, fout \in FactoryOutcomes, out \in OutcomesFor(ncmds + 1) :
         Assign(start(in.req, in.inst, fout, out))

CmdRestartVbuckets ==
    /\ TakeCmd
    /\ \E req \in RestartInputs, out \in OutcomesFor(ncmds + 1) :
         Assign(restartVbuckets(req, out))

CmdShutdownVbuckets ==
    /\ TakeCmd
    /\ \E req \in ShutdownInputs, out \in OutcomesFor(ncmds + 1) :
         Assign(shutdownVbuckets(req, out))

CmdAddBuckets ==
    /\ TakeCmd
    /\ \E in \in AddBucketsInputs, fout \in FactoryOutcomes, out \in OutcomesFor(ncmds + 1) :
         Assign(addBuckets(in.req, in.inst, fout, out))

CmdDelBuckets ==
    /\ TakeCmd
    /\ \E req \in BucketListInputs, out \in OutcomesFor(ncmds + 1) :
         Assign(delBuckets(req, out))

CmdAddInstances ==
    /\ TakeCmd
    /\ \E inst \in InstanceInputs, fout \in FactoryOutcomes :
         Assign(addInstances(inst, fout))

CmdDelInstances ==
    /\ TakeCmd
    /\ \E instanceIds \in InstanceIdInputs : Assign(delInstances(instanceIds))

CmdRepairEndpoints ==
    /\ TakeCmd
    /\ \E raddrs \in RaddrListInputs, fout \in FactoryOutcomes :
         Assign(repairEndpoints(raddrs, fout))

\* waitOnFeedback: the select takes a message from backch
WaitRecv ==
    /\ pc = "wait"
    /\ backch # <<>>
    /\ \E out \in OutcomesFor(ncmds) :
         LET S0 == [Cur EXCEPT !.backch = Tail(@)]
             r  == callb(op, Head(backch))
         IN  IF r.res = "skip"
               THEN /\ out = "ok"
                    /\ Assign([S0 EXCEPT !.op.msgs = Append(@, Head(backch))])
             ELSE IF r.res = "ok"
               THEN /\ out = "ok"
                    /\ Assign([S0 EXCEPT !.op = [r.op EXCEPT !.consumed =
                                                  @ \cup {Head(backch)}]])
             ELSE Assign(WaitExit([S0 EXCEPT !.op = r.op], "nil", out))
    /\ UNCHANGED <<now, ncmds, finch, smVars>>

\* waitOnFeedback: the select takes the timeout
WaitTimeout ==
    /\ pc = "wait"
    /\ Assign(WaitExit(Cur, "responseTimeout", "ok"))
    /\ UNCHANGED <<now, ncmds, finch, smVars>>

\* ------------------------------------------------------------- shutdown

OpenFeeders   == {b \in DOMAIN feeders : ~feederObjs[feeders[b]].closed}
OpenKVDatas   == {i \in UNION {KVIds(Cur, b) : b \in DOMAIN kvdata} : ~kvObjs[i].closed}
OpenEndpoints == {a \in DOMAIN endpoints : ~epObjs[endpoints[a]].closed}

\* feed.shutdown() is running: called for fCmdShutdown, or by the deferred
\* function of genServer after a panic
InShutdown == pc \in {"shutdown", "recover"}

\* genServer takes fCmdShutdown
CmdShutdown ==
    /\ TakeCmd
    /\ pc' = "shutdown"
    /\ op' = [NoOp EXCEPT !.cmd = "shutdown", !.pre = TopicState(Cur)]
    /\ UNCHANGED <<reqTss, rollTss, feeders, kvdata, engines,
                   endpoints, backch, feederObjs, kvObjs, epObjs, calls,
                   pending, streams, ret, nwaits, running, smVars>>

\* shutdown: feeder.CloseFeed() for the next feeder of feed.feeders
shutdownCloseFeed ==
    /\ InShutdown
    /\ \E b \in OpenFeeders :
         LET S == CloseFeed(Cur, feeders[b])
         IN  feederObjs' = S.feederObjs /\ streams' = S.streams
    /\ UNCHANGED <<now, pc, op, ncmds, reqTss, rollTss, feeders, kvdata, engines,
                   endpoints, backch, finch, kvObjs, epObjs, calls,
                   pending, ret, nwaits, running, smVars>>

\* shutdown closing the data paths without the feeders being closed first
shutdownCloseKVData_BeforeFeeders ==
    /\ InShutdown
    /\ \E i \in OpenKVDatas : kvObjs' = KVClose(Cur, {i}).kvObjs
    /\ UNCHANGED <<now, pc, op, ncmds, reqTss, rollTss, feeders, kvdata, engines,
                   endpoints, backch, finch, feederObjs, epObjs, calls,
                   pending, streams, ret, nwaits, running, smVars>>

\* shutdown: x.Close() for the next KVData of feed.kvdata
shutdownCloseKVData ==
    /\ InShutdown
    /\ OpenFeeders = {}
    /\ \E i \in OpenKVDatas : kvObjs' = KVClose(Cur, {i}).kvObjs
    /\ UNCHANGED <<now, pc, op, ncmds, reqTss, rollTss, feeders, kvdata, engines,
                   endpoints, backch, finch, feederObjs, epObjs, calls,
                   pending, streams, ret, nwaits, running, smVars>>

\* shutdown: endpoint.Close() for the next endpoint of feed.endpoints
shutdownCloseEndpoint ==
    /\ InShutdown
    /\ OpenFeeders = {}
    /\ OpenKVDatas = {}
    /\ \E a \in OpenEndpoints :
         epObjs' = [epObjs EXCEPT ![endpoints[a]].closed = TRUE]
    /\ UNCHANGED <<now, pc, op, ncmds, reqTss, rollTss, feeders, kvdata, engines,
                   endpoints, backch, finch, feederObjs, kvObjs, calls,
                   pending, streams, ret, nwaits, running, smVars>>

\* shutdown: close(feed.finch); then the reply to Shutdown and genServer
\* leaves its loop ("exited"), or, after a panic, FailsafeOp releases the
\* caller by finch and genServer returns from its deferred function
\* ("recovered")
shutdownCloseFinch ==
    /\ InShutdown
    /\ OpenFeeders = {}
    /\ OpenKVDatas = {}
    /\ OpenEndpoints = {}
    /\ finch' = TRUE
    /\ pc' = IF pc = "shutdown" THEN "exited" ELSE "recovered"
    /\ op' = NoOp
    /\ ret' = IF pc = "shutdown"
                THEN [NoRet EXCEPT !.cmd = "shutdown", !.pre = op.pre]
                ELSE [NoRet EXCEPT !.cmd = Method[op.cmd],
                                   !.err = MethodReturn(Method[op.cmd],
                                                        FailsafeOpClosed)]
    /\ UNCHANGED <<now, ncmds, reqTss, rollTss, feeders, kvdata, engines,
                   endpoints, backch, feederObjs, kvObjs, epObjs, calls,
                   pending, streams, nwaits, running, smVars>>

Next ==
    \/ Tick
    \/ Post
    \/ EndpointDown
    \/ CmdStart
    \/ CmdRestartVbuckets
    \/ CmdShutdownVbuckets
    \/ CmdAddBuckets
    \/ CmdDelBuckets
    \/ CmdAddInstances
    \/ CmdDelInstances
    \/ CmdRepairEndpoints
    \/ CmdShutdown
    \/ GetReply
    \/ ClosedCall
    \/ WaitRecv
    \/ WaitTimeout
    \/ shutdownCloseFeed
    \/ shutdownCloseKVData
    \/ shutdownCloseEndpoint
    \/ shutdownCloseFinch

Spec == Init /\ [][Next]_vars

\* ====================================================== the Stream Manager

StreamIds == {"MAINT_STREAM", "INIT_STREAM"}

IndexStates == {"CREATED", "READY", "INITIAL", "ACTIVE", "DELETED"}

\* what the record of a range loop's variable holds when it is read after
\* the loop: with one variable for the whole loop every pointer taken in
\* the loop reads the last element, with one variable per iteration each
\* reads its own
LoopVars == {"shared", "perIteration"}

Inst(id, state) == [InstId |-> id, State |-> state]

Defn(bucket, name, instances) ==
    [Bucket |-> bucket, Name |-> name, Instances |-> instances]

\* oldTopology.FindIndexDefinition(bucket, name): the definition of that
\* bucket and name, or nil
FindIndexDefinition(topology, bucket, name) ==
    LET ds == {i \in 1..Len(topology.Definitions) :
                 /\ topology.Definitions[i].Bucket = bucket
                 /\ topology.Definitions[i].Name = name}
    IN  IF ds = {} THEN NilDefn
        ELSE topology.Definitions[CHOOSE i \in ds : \A j \in ds : i <= j]

inState(state, possibleStates) ==
    \/ possibleStates.isNil
    \/ \E i \in 1..Len(possibleStates.list) : possibleStates.list[i] = state

\* the diff rule without the test of the old instance's state
add_IgnoreFromStates(oldDefn, newInst, fromStates, toStates) ==
    inState(newInst.State, toStates)

\* the value of add for newInst when the loop over oldDefn.Instances ends
add(oldDefn, newInst, fromStates, toStates) ==
    /\ inState(newInst.State, toStates)
    /\ oldDefn # NilDefn =>
         \A k \in 1..Len(oldDefn.Instances) :
            oldDefn.Instances[k].InstId = newInst.InstId =>
               /\ inState(oldDefn.Instances[k].State, fromStates)
               /\ oldDefn.Instances[k].State # newInst.State

RECURSIVE Concat(_)
Concat(ss) == IF ss = <<>> THEN <<>> ELSE Head(ss) \o Concat(Tail(ss))

\* the change records of one definition. A record holds the pointers
\* newDefn and &newInst; instance is what &newInst reads once the loop has
\* ended, selected the instance the record was made for
addInstancesToChangeList(oldDefn, newDefn, fromStates, toStates, loopvar) ==
    LET n == Len(newDefn.Instances)
        change(i) ==
            IF add(oldDefn, newDefn.Instances[i], fromStates, toStates)
              THEN <<[definition |-> newDefn,
                      instance |-> IF loopvar = "shared"
                                     THEN newDefn.Instances[n]
                                     ELSE newDefn.Instances[i],
                      selected |-> newDefn.Instances[i]]>>
              ELSE <<>>
    IN  Concat([i \in 1..n |-> change(i)])

\* the loop over newTopology.Definitions of handleAddInstances and of
\* handleDeleteInstances: oldDefns[i] is the old definition found for the
\* i-th new one. Every record holds &newDefn, the loop's variable
collectChanges(oldDefns, newTopology, fromStates, toStates, loopvar) ==
    LET n  == Len(newTopology.Definitions)
        cs == Concat([i \in 1..n |->
                 addInstancesToChangeList(oldDefns[i], newTopology.Definitions[i],
                                          fromStates, toStates, loopvar)])
    IN  [k \in 1..Len(cs) |->
           IF loopvar = "shared"
             THEN [cs[k] EXCEPT !.definition = newTopology.Definitions[n]]
             ELSE cs[k]]

\* GetChangeRecordAsProtoMsg: one protobuf.Instance per change record, of
\* the record's definition and instance
GetChangeRecordAsProtoMsg(changes) ==
    [k \in 1..Len(changes) |->
       [defn |-> changes[k].definition.Name, instId |-> changes[k].instance.InstId]]

\* the handling ends: run() logs the error and goes back to its select
Finish(P, err) ==
    [P EXCEPT !.run.pc = "handled", !.run.done = TRUE, !.run.err = err,
              !.run.stage = 0, !.run.call = NoCall]

\* handleTopologyChange from one of its parts on: 1 and 2 the add and the
\* delete of the maintenance stream, 3 and 4 those of the init stream, 5
\* the update of s.topologies
RECURSIVE handleTopologyChangeFrom(_, _, _)

handleAddInstances(P, streamId, fromState, toState, addrOk) ==
    LET r == P.run
        oldDefns == [i \in 1..Len(r.new.Definitions) |->
                       IF r.old = NilTopology THEN NilDefn
                       ELSE FindIndexDefinition(r.old, r.new.Bucket,
                                                r.new.Definitions[i].Name)]
        changes == collectChanges(oldDefns, r.new, fromState, toState, r.loopvar)
    IN  IF r.old # NilTopology /\ r.old.Version = r.new.Version
          THEN handleTopologyChangeFrom(P, r.stage + 1, addrOk)
        ELSE IF Len(changes) > 0
          THEN IF ~addrOk THEN Finish(P, "addrError")
               ELSE [P EXCEPT !.run.pc = "locked",
                              !.run.call =
                                 [kind |-> "AddIndexToStream", streamId |-> streamId,
                                  bucket |-> r.new.Bucket,
                                  instances |-> GetChangeRecordAsProtoMsg(changes)]]
        ELSE handleTopologyChangeFrom(P, r.stage + 1, addrOk)

\* handleDeleteInstances comparing no versions
handleDeleteInstances_NoVersionCheck(P, streamId, fromState, toState, addrOk) ==
    LET r == P.run
        oldDefns == [i \in 1..Len(r.new.Definitions) |->
                       FindIndexDefinition(r.old, r.new.Definitions[i].Bucket,
                                           r.new.Definitions[i].Name)]
        changes == collectChanges(oldDefns, r.new, fromState, toState, r.loopvar)
    IN  IF r.old = NilTopology
          THEN handleTopologyChangeFrom(P, r.stage + 1, addrOk)
        ELSE [P EXCEPT !.run.pc = "locked",
                       !.run.call =
                          [kind |-> "DeleteIndexFromStream", streamId |-> streamId,
                           bucket |-> r.new.Bucket,
                           instances |-> [k \in 1..Len(changes) |->
                                            changes[k].instance.InstId]]]

handleDeleteInstances(P, streamId, fromState, toState, addrOk) ==
    LET r == P.run
        oldDefns == [i \in 1..Len(r.new.Definitions) |->
                       FindIndexDefinition(r.old, r.new.Definitions[i].Bucket,
                                           r.new.Definitions[i].Name)]
        changes == collectChanges(oldDefns, r.new, fromState, toState, r.loopvar)
    IN  IF r.old = NilTopology \/ r.old.Version = r.new.Version
          THEN handleTopologyChangeFrom(P, r.stage + 1, addrOk)
        ELSE [P EXCEPT !.run.pc = "locked",
                       !.run.call =
                          [kind |-> "DeleteIndexFromStream", streamId |-> streamId,
                           bucket |-> r.new.Bucket,
                           instances |-> [k \in 1..Len(changes) |->
                                            changes[k].instance.InstId]]]

handleTopologyChangeForInitStream(P, addrOk) ==
    IF "INIT_STREAM" \notin mgrStreams
      THEN handleTopologyChangeFrom(P, 5, addrOk)
      ELSE handleAddInstances(
             [P EXCEPT !.run.stage = 3, !.run.seen = @ \cup {"INIT_STREAM"}],
             "INIT_STREAM", States(<<"CREATED">>), States(<<"READY">>), addrOk)

handleTopologyChangeFrom(P, stage, addrOk) ==
    LET Q == [P EXCEPT !.run.stage = stage]
    IN  IF stage = 2
          THEN handleDeleteInstances(Q, "MAINT_STREAM",
                 States(<<"ACTIVE", "READY">>), States(<<"DELETED">>), addrOk)
        ELSE IF stage = 3 THEN handleTopologyChangeForInitStream(Q, addrOk)
        ELSE IF stage = 4
          THEN handleDeleteInstances(Q, "INIT_STREAM",
                 NilStates, States(<<"DELETED", "ACTIVE">>), addrOk)
        ELSE Finish([Q EXCEPT !.topologies = MapPut(@, Q.run.new.Bucket, Q.run.new)],
                    "nil")

handleTopologyChangeForMaintStream(P, addrOk) ==
    IF "MAINT_STREAM" \notin mgrStreams
      THEN handleTopologyChangeFrom(P, 3, addrOk)
      ELSE handleAddInstances(
             [P EXCEPT !.run.stage = 1, !.run.seen = @ \cup {"MAINT_STREAM"}],
             "MAINT_STREAM", States(<<"CREATED">>), States(<<"READY">>), addrOk)

\* handleTopologyChange updating s.topologies before it makes the calls
handleTopologyChange_StoreFirst(P, addrOk) ==
    handleTopologyChangeForMaintStream(
        [P EXCEPT !.topologies = MapPut(@, P.run.new.Bucket, P.run.new)], addrOk)

\* handleTopologyChange, up to its first call under the lock or its return
handleTopologyChange(P, addrOk) == handleTopologyChangeForMaintStream(P, addrOk)

\* ----------------------------------------------- topologies of the store

\* bucket b1 with definition d1 of one or two instances and, in half of
\* the topologies, definition d2 of one instance
InstanceLists ==
    {<<Inst(1, s)>> : s \in IndexStates}
      \cup {<<Inst(1, s), Inst(2, t)>> : s \in IndexStates, t \in {"READY", "DELETED"}}

DefinitionLists ==
    {<<Defn("b1", "d1", is)>> : is \in InstanceLists}
      \cup {<<Defn("b1", "d1", is), Defn("b1", "d2", <<Inst(3, "READY")>>)>> :
              is \in InstanceLists}

Topologies ==
    {[Bucket |-> "b1", Version |-> v, Definitions |-> ds] :
        v \in 1..MaxVersion, ds \in DefinitionLists}

\* what the repository holds when run() starts: nothing, or a topology
StoreInputs == {NilTopology} \cup {t \in Topologies : t.Version = 1}

\* GetTopologyAsInstanceProtoMsg: the instances of the bucket's topology
\* that are to be streamed, as protobuf.Instance
GetTopologyAsInstanceProtoMsg(topology) ==
    GetChangeRecordAsProtoMsg(
        collectChanges([i \in 1..Len(topology.Definitions) |-> NilDefn], topology,
                       States(<<"CREATED">>), States(<<"READY">>), "perIteration"))

\* GetAllDeletedIndexInstancesId: the ids of the instances in DELETED
GetAllDeletedIndexInstancesId(topology) ==
    LET cs == collectChanges([i \in 1..Len(topology.Definitions) |-> NilDefn],
                             topology, NilStates, States(<<"DELETED">>),
                             "perIteration")
    IN  [k \in 1..Len(cs) |-> cs[k].instance.InstId]

AdminOutcomes == {"ok", "err"}

\* ---------------------------------------------------- the public methods

\* the other goroutines call while run() is at its select, waits for the
\* lock, or has not been started or has returned
Callable == run.pc \in {"none", "listen", "locked", "stopped"}

\* the public methods that write s.streams
Writers == {"StartStream", "CloseStream", "Close"}

\* s.mutex.Lock() of StartStream, CloseStream or Close, called by another
\* goroutine than run()
Lock ==
    /\ Callable
    /\ mutex = NoHolder
    /\ \E method \in Writers : mutex' = Held(method)
    /\ UNCHANGED <<feedVars, mgrStreams, isClosed, topologies, run, diff, cb>>

\* StartStream(streamId) once it holds the lock, as a function of the open
\* streams; newStream or stream.start() may fail
startStream(ss, streamId, out) ==
    IF isClosed \/ streamId \in ss \/ out = "err" THEN ss ELSE ss \cup {streamId}

\* StartStream(streamId) from its Lock() on
StartStream ==
    /\ mutex = Held("StartStream")
    /\ \E streamId \in StreamIds, out \in AdminOutcomes :
         mgrStreams' = startStream(mgrStreams, streamId, out)
    /\ mutex' = NoHolder
    /\ UNCHANGED <<feedVars, isClosed, topologies, run, diff, cb>>

\* closeStreamNoLock(streamId)
closeStreamNoLock(ss, streamId) == ss \ {streamId}

\* CloseStream(streamId) from its Lock() on
CloseStream ==
    /\ mutex = Held("CloseStream")
    /\ \E streamId \in StreamIds :
         mgrStreams' = IF isClosed THEN mgrStreams
                       ELSE closeStreamNoLock(mgrStreams, streamId)
    /\ mutex' = NoHolder
    /\ UNCHANGED <<feedVars, isClosed, topologies, run, diff, cb>>

\* Close() from its Lock() on: closes every stream and stopch
Close ==
    /\ mutex = Held("Close")
    /\ mgrStreams' = {}
    /\ isClosed' = TRUE
    /\ mutex' = NoHolder
    /\ UNCHANGED <<feedVars, topologies, run, diff, cb>>

\* AddIndexForAllBuckets(streamId): takes the lock and, on a manager that
\* is not closed, calls AddIndexForBuckets, which calls s.mutex.Lock()
\* again; sync.Mutex is not reentrant, and the goroutine waits for the
\* lock it holds
AddIndexForAllBuckets ==
    /\ Callable
    /\ mutex = NoHolder
    /\ mutex' = IF isClosed THEN NoHolder
                ELSE [holder |-> "AddIndexForAllBuckets", relock |-> TRUE]
    /\ UNCHANGED <<feedVars, mgrStreams, isClosed, topologies, run, diff, cb>>

\* AddIndexForBuckets(streamId, buckets) from its Lock() on, the open
\* streams being ss: the AddIndexToStream call it makes and the error it
\* returns
AddIndexForBuckets(ss, streamId, store, out) ==
    LET call == [kind |-> "AddIndexToStream", streamId |-> streamId,
                 bucket |-> store.Bucket,
                 instances |-> GetTopologyAsInstanceProtoMsg(store),
                 err |-> IF out = "adminError" THEN "err" ELSE "ok"]
    IN  IF isClosed THEN [calls |-> <<>>, err |-> "nil"]
        ELSE IF streamId \notin ss
          THEN [calls |-> <<>>, err |-> "streamNotOpen"]
        ELSE [calls |-> <<call>>,
              err |-> IF out = "adminError" THEN "adminError" ELSE "nil"]

\* DeleteIndexForBuckets(streamId, buckets) from its Lock() on
DeleteIndexForBuckets(ss, streamId, store) ==
    LET call == [kind |-> "DeleteIndexFromStream", streamId |-> streamId,
                 bucket |-> store.Bucket,
                 instances |-> GetAllDeletedIndexInstancesId(store),
                 err |-> "ok"]
    IN  IF isClosed THEN [calls |-> <<>>, err |-> "nil"]
        ELSE IF streamId \notin ss
          THEN [calls |-> <<>>, err |-> "streamNotOpen"]
        ELSE [calls |-> <<call>>, err |-> "nil"]

\* RestartStreamIfNecessary(streamId, timestamps): the admin call under
\* the lock; nothing of the manager changes
RestartStreamIfNecessary ==
    /\ Callable
    /\ mutex = NoHolder
    /\ UNCHANGED vars

\* ------------------------------------------------------ the goroutine run

\* StartHandlingTopologyChange: IsClosed() under the lock, and go s.run()
StartHandlingTopologyChange ==
    /\ run.pc = "none"
    /\ mutex = NoHolder
    /\ ~isClosed
    /\ run' = [NoRun EXCEPT !.pc = "spawned"]
    /\ UNCHANGED <<feedVars, mgrStreams, isClosed, topologies, mutex, diff, cb>>

\* the first statement of run(): s.indexMgr.StartListenTopologyUpdate,
\* which registers run() for the topology changes; on an error run() panics
StartListenTopologyUpdate ==
    /\ run.pc = "spawned"
    /\ \E out \in AdminOutcomes :
         run' = IF out = "err" THEN [NoRun EXCEPT !.pc = "crashed"]
                ELSE [run EXCEPT !.pc = "registered",
                                 !.boot = Append(@, "register")]
    /\ UNCHANGED <<feedVars, mgrStreams, isClosed, topologies, mutex, diff, cb>>

\* loadTopology(): s.topologies gets the topology of every bucket of the
\* repository; on an error run() panics
loadTopology ==
    /\ run.pc = "registered"
    /\ \E store \in StoreInputs, out \in AdminOutcomes :
         IF out = "err"
           THEN /\ run' = [NoRun EXCEPT !.pc = "crashed"]
                /\ UNCHANGED topologies
           ELSE /\ run' = [run EXCEPT !.pc = "loaded", !.boot = Append(@, "load")]
                /\ topologies' = IF store = NilTopology THEN topologies
                                 ELSE MapPut(topologies, store.Bucket, store)
    /\ UNCHANGED <<feedVars, mgrStreams, isClosed, mutex, diff, cb>>

BootOutcomes == {"ok", "streamError", "adminError"}

\* initializeMaintenanceStream(): StartStream(MAINT_STREAM), and for the
\* buckets that have indexes AddIndexForBuckets and DeleteIndexForBuckets,
\* each under the lock; on an error run() panics
initializeMaintenanceStream ==
    /\ run.pc = "loaded"
    /\ mutex = NoHolder
    /\ \E out \in BootOutcomes :
         LET store == IF "b1" \in DOMAIN topologies THEN topologies["b1"]
                      ELSE NilTopology
             ss  == startStream(mgrStreams, "MAINT_STREAM",
                                IF out = "streamError" THEN "err" ELSE "ok")
             opened == [run EXCEPT !.boot = Append(@, "openMaint")]
         IN  IF out = "streamError"
               THEN /\ run' = [NoRun EXCEPT !.pc = "crashed"]
                    /\ UNCHANGED mgrStreams
             ELSE /\ mgrStreams' = ss
                  /\ run' =
                       IF store = NilTopology
                         THEN [opened EXCEPT !.pc = "started"]
                       ELSE LET a == AddIndexForBuckets(ss, "MAINT_STREAM", store, out)
                                d == DeleteIndexForBuckets(ss, "MAINT_STREAM", store)
                            IN  IF a.err # "nil"
                                  THEN [NoRun EXCEPT !.pc = "crashed",
                                                     !.calls = a.calls]
                                ELSE IF d.err # "nil"
                                  THEN [NoRun EXCEPT !.pc = "crashed",
                                                     !.calls = a.calls \o d.calls]
                                ELSE [opened EXCEPT
                                        !.pc = "started",
                                        !.boot = @ \o <<"add", "delete">>,
                                        !.calls = a.calls \o d.calls]
    /\ UNCHANGED <<feedVars, isClosed, topologies, mutex, diff, cb>>

\* run() is back at its select
Listen ==
    /\ run.pc \in {"started", "handled"}
    /\ run' = [NoRun EXCEPT !.pc = "listen"]
    /\ UNCHANGED <<feedVars, mgrStreams, isClosed, topologies, mutex, diff, cb>>

\* what reaches run() with an event: a topology it can decode, for which
\* GetLocalServiceHost answers or fails, or a payload it cannot decode
EventOutcomes == {"ok", "addrError", "undecodable"}

\* another goroutine is in a public method that writes s.streams: it holds
\* the lock and has a stream to add or to delete
Writing ==
    /\ mutex.holder \in Writers
    /\ ~isClosed
    /\ IF mutex.holder = "StartStream" THEN mgrStreams # StreamIds
       ELSE mgrStreams # {}

\* what the reads of s.streams that handleTopologyChange makes without the
\* lock do: they return what the map holds, or, made while another
\* goroutine writes the map, end the process with the runtime's fatal
\* error for a concurrent map read and map write
ReadOutcomes == IF Writing THEN {"read", "fatal"} ELSE {"read"}

\* run() takes an event from changeCh and calls handleTopologyChange
TopologyChange ==
    /\ run.pc = "listen"
    /\ \E topology \in Topologies, loopvar \in LoopVars, env \in EventOutcomes,
          rd \in ReadOutcomes :
         LET r == [NoRun EXCEPT
                     !.pc = "listen", !.new = topology,
                     !.old = IF topology.Bucket \in DOMAIN topologies
                               THEN topologies[topology.Bucket] ELSE NilTopology,
                     !.pre = topologies, !.loopvar = loopvar]
             P == handleTopologyChange([run |-> r, topologies |-> topologies,
                                        mutex |-> mutex], env = "ok")
         IN  IF env = "undecodable"
               THEN rd = "read" /\ UNCHANGED <<run, topologies>>
             ELSE IF rd = "fatal"
               THEN run' = [NoRun EXCEPT !.pc = "crashed"] /\ UNCHANGED topologies
             ELSE run' = P.run /\ topologies' = P.topologies
    /\ UNCHANGED <<feedVars, mgrStreams, isClosed, mutex, diff, cb>>

\* what a call made under the lock does: it returns nil or an error, or
\* it panics
CallOutcomes == {"ok", "err", "panic"}

\* addIndexInstances / removeIndexInstances keeping the lock when the
\* call panics
lockedCall_NoDeferredUnlock(P, out, addrOk) ==
    LET r == P.run
        Q == [P EXCEPT !.run.calls = Append(@, [kind |-> r.call.kind,
                                                streamId |-> r.call.streamId,
                                                bucket |-> r.call.bucket,
                                                instances |-> r.call.instances,
                                                err |-> out])]
    IN  IF isClosed THEN handleTopologyChangeFrom(P, r.stage + 1, addrOk)
        ELSE IF r.call.streamId \notin mgrStreams THEN Finish(P, "streamNotOpen")
        ELSE IF out = "panic"
          THEN Finish([Q EXCEPT !.mutex = Held("run")], "panic")
        ELSE IF out = "err" THEN Finish(Q, "adminError")
        ELSE handleTopologyChangeFrom(Q, r.stage + 1, addrOk)

\* addIndexInstances / removeIndexInstances from their Lock() on, and
\* handleTopologyChange up to its next call. The deferred Unlock() runs on
\* a return and on a panic alike; the panic unwinds into the deferred
\* function of run(), which recovers: the event is dropped
lockedCall(P, out, addrOk) ==
    LET r == P.run
        Q == [P EXCEPT !.run.calls = Append(@, [kind |-> r.call.kind,
                                                streamId |-> r.call.streamId,
                                                bucket |-> r.call.bucket,
                                                instances |-> r.call.instances,
                                                err |-> out])]
    IN  IF isClosed THEN handleTopologyChangeFrom(P, r.stage + 1, addrOk)
        ELSE IF r.call.streamId \notin mgrStreams THEN Finish(P, "streamNotOpen")
        ELSE IF out = "panic" THEN Finish(Q, "panic")
        ELSE IF out = "err" THEN Finish(Q, "adminError")
        ELSE handleTopologyChangeFrom(Q, r.stage + 1, addrOk)

\* addIndexInstances: s.admin.AddIndexToStream under the lock
addIndexInstances ==
    /\ run.pc = "locked"
    /\ run.call.kind = "AddIndexToStream"
    /\ mutex = NoHolder
    /\ \E out \in CallOutcomes, addrOk \in BOOLEAN :
         LET P == lockedCall([run |-> run, topologies |-> topologies,
                              mutex |-> mutex], out, addrOk)
         IN  run' = P.run /\ topologies' = P.topologies /\ mutex' = P.mutex
    /\ UNCHANGED <<feedVars, mgrStreams, isClosed, diff, cb>>

\* removeIndexInstances: s.admin.DeleteIndexFromStream under the lock
removeIndexInstances ==
    /\ run.pc = "locked"
    /\ run.call.kind = "DeleteIndexFromStream"
    /\ mutex = NoHolder
    /\ \E out \in CallOutcomes, addrOk \in BOOLEAN :
         LET P == lockedCall([run |-> run, topologies |-> topologies,
                              mutex |-> mutex], out, addrOk)
         IN  run' = P.run /\ topologies' = P.topologies /\ mutex' = P.mutex
    /\ UNCHANGED <<feedVars, mgrStreams, isClosed, diff, cb>>

\* run() takes the closed stopch and returns
Stop ==
    /\ run.pc = "listen"
    /\ isClosed
    /\ run' = [NoRun EXCEPT !.pc = "stopped"]
    /\ UNCHANGED <<feedVars, mgrStreams, isClosed, topologies, mutex, diff, cb>>

NextSM ==
    \/ Lock
    \/ StartStream
    \/ CloseStream
    \/ Close
    \/ AddIndexForAllBuckets
    \/ RestartStreamIfNecessary
    \/ StartHandlingTopologyChange
    \/ StartListenTopologyUpdate
    \/ loadTopology
    \/ initializeMaintenanceStream
    \/ Listen
    \/ TopologyChange
    \/ addIndexInstances
    \/ removeIndexInstances
    \/ Stop

SpecSM == Init /\ [][NextSM]_vars

\* ------------------------------------- the diff rule as a pure function

\* definitions d1 of one or two instances, in every state
DiffDefns ==
    {Defn("b1", "d1", is) :
        is \in {<<Inst(1, s)>> : s \in IndexStates}
                 \cup {<<Inst(1, s), Inst(2, t)>> : s, t \in IndexStates}}

DiffStateLists ==
    {NilStates, States(<<>>), States(<<"CREATED">>), States(<<"READY">>),
     States(<<"ACTIVE", "READY">>), States(<<"DELETED", "ACTIVE">>)}

InitDiff ==
    /\ InitFeed
    /\ InitStreamManager
    /\ cb = NoCb
    /\ diff \in {[NoDiff EXCEPT !.oldDefn = o, !.newDefn = n, !.fromStates = f,
                                 !.toStates = t, !.loopvar = l] :
                    o \in DiffDefns \cup {NilDefn}, n \in DiffDefns,
                    f \in DiffStateLists, t \in DiffStateLists, l \in LoopVars}

\* s.addInstancesToChangeList(oldDefn, newDefn, fromStates, toStates)
ApplyDiff ==
    /\ ~diff.applied
    /\ diff' = [diff EXCEPT
                  !.applied = TRUE,
                  !.changes = addInstancesToChangeList(diff.oldDefn, diff.newDefn,
                                 diff.fromStates, diff.toStates, diff.loopvar)]
    /\ UNCHANGED <<feedVars, mgrStreams, isClosed, topologies, run, mutex, cb>>

NextDiff == ApplyDiff

SpecDiff == InitDiff /\ [][NextDiff]_vars

\* ------------------------------- the scan coordinator: a count request

MaxSlices == 2   \* slice snapshots of an index snapshot

\* the cases of the select of Run that can proceed, done left out
CanProceed_NoDone(c) == SeqToSet(c.signals) \ {"done"}

\* the cases of the select of Run that can proceed: done once it is
\* closed, cancel once req.CancelCh is closed or holds a value, timeout
\* once the timer has fired
CanProceed(c) == SeqToSet(c.signals)

\* a channel of the CancelCb becomes ready. A goroutine that waits in its
\* select is woken for that case; otherwise the channel stays ready until
\* the select runs
Signal(c, s) ==
    IF c.g = "parked"
      THEN [c EXCEPT !.signals = Append(@, s), !.g = "woken", !.won = s]
      ELSE [c EXCEPT !.signals = Append(@, s)]

\* the error callb is given in the case taken
CallbError(case) ==
    IF case = "cancel" THEN "clientCancel" ELSE "scanTimedOut"

\* handleCountRequest up to its loop: NewCancelCallback and Run, which
\* starts the goroutine
HandleCountRequest ==
    /\ cb.handler = "none"
    /\ \E n \in 0..MaxSlices, hasTimer \in BOOLEAN :
         cb' = [NoCb EXCEPT !.handler = IF n = 0 THEN "respond" ELSE "scan",
                            !.nslices = n, !.slice = 1,
                            !.hasTimer = hasTimer, !.g = "spawned"]
    /\ UNCHANGED <<feedVars, mgrStreams, isClosed, topologies, run, mutex, diff>>

\* the outcomes of snap.CountLookup / CountTotal / CountRange
CountOutcomes == {"ok", "err"}

\* one iteration of the loop over the slice snapshots: the count assigns
\* err, and an error ends the loop
CountSlice ==
    /\ cb.handler = "scan"
    /\ \E out \in CountOutcomes :
         cb' = [cb EXCEPT
                  !.err = IF out = "ok" THEN "nil" ELSE "scanError",
                  !.slice = IF out = "ok" THEN @ + 1 ELSE @,
                  !.handler = IF out = "ok" /\ cb.slice < cb.nslices
                                THEN "scan" ELSE "respond"]
    /\ UNCHANGED <<feedVars, mgrStreams, isClosed, topologies, run, mutex, diff>>

\* tryRespondWithError or w.Count, and the deferred cancelCb.Done()
Respond ==
    /\ cb.handler = "respond"
    /\ cb' = Signal([cb EXCEPT
                       !.responded = IF cb.err # "nil" THEN "error" ELSE "count",
                       !.handler = "returned"], "done")
    /\ UNCHANGED <<feedVars, mgrStreams, isClosed, topologies, run, mutex, diff>>

\* the client cancels: req.CancelCh becomes ready
ClientCancel ==
    /\ cb.handler # "none"
    /\ "cancel" \notin SeqToSet(cb.signals)
    /\ cb' = Signal(cb, "cancel")
    /\ UNCHANGED <<feedVars, mgrStreams, isClosed, topologies, run, mutex, diff>>

\* req.Timeout fires
TimerFires ==
    /\ cb.handler # "none"
    /\ cb.hasTimer
    /\ "timeout" \notin SeqToSet(cb.signals)
    /\ cb' = Signal(cb, "timeout")
    /\ UNCHANGED <<feedVars, mgrStreams, isClosed, topologies, run, mutex, diff>>

\* the goroutine of Run reaches its select: it takes one of the cases that
\* can proceed, any of them, and waits when there is none
Select ==
    /\ cb.g = "spawned"
    /\ IF CanProceed(cb) = {}
         THEN cb' = [cb EXCEPT !.g = "parked"]
         ELSE \E case \in CanProceed(cb) :
                cb' = [cb EXCEPT !.g = "woken", !.won = case]
    /\ UNCHANGED <<feedVars, mgrStreams, isClosed, topologies, run, mutex, diff>>

\* the goroutine runs the case taken: the done case is empty, the others
\* call callb, which sets err and closes stopch; then the goroutine ends
RunCase ==
    /\ cb.g = "woken"
    /\ cb' = IF cb.won = "done" THEN [cb EXCEPT !.g = "exited"]
             ELSE [cb EXCEPT !.g = "exited", !.ncalls = @ + 1,
                             !.arg = CallbError(cb.won),
                             !.err = CallbError(cb.won), !.stopch = TRUE]
    /\ UNCHANGED <<feedVars, mgrStreams, isClosed, topologies, run, mutex, diff>>

NextCb ==
    \/ HandleCountRequest
    \/ CountSlice
    \/ Respond
    \/ ClientCancel
    \/ TimerFires
    \/ Select
    \/ RunCase

\* the Go scheduler runs a goroutine that can run
SpecCb == Init /\ [][NextCb]_vars /\ WF_vars(Select) /\ WF_vars(RunCase)

\* ----------------------------------------------------------- properties

\* a reply is waiting: the state is the one the command returned in
Returned(cmds) == ret # NoRet /\ ret.cmd \in cmds

ControlOps ==
    {"start", "restartVbuckets", "shutdownVbuckets", "addBuckets",
     "delBuckets", "addInstances", "delInstances", "repairEndpoints"}

StreamOps ==
    {"start", "addBuckets", "restartVbuckets", "shutdownVbuckets", "delBuckets"}

\* C1: after any control operation returns, with success or with an
\* error, feeders, reqTss, kvdata and engines have the same bucket keys.
C1_SameBucketKeys ==
    Returned(ControlOps) =>
        /\ DOMAIN feeders = DOMAIN reqTss
        /\ DOMAIN reqTss = DOMAIN kvdata
        /\ DOMAIN kvdata = DOMAIN engines

\* C2: when start, addBuckets, restartVbuckets, shutdownVbuckets or
\* delBuckets returns an error, the topic state is the one from before the
\* operation.
C2_ErrorLeavesTopicState ==
    (Returned(StreamOps) /\ ret.err # "nil") => TopicState(Cur) = ret.pre

\* C3: at most one producer stream per (bucket, vbucket), and at most one
\* open Bucket Feeder per bucket, in every reachable state.
C3_OneStreamPerVbucket ==
    /\ \A s1, s2 \in streams :
         (s1.bucket = s2.bucket /\ s1.vbno = s2.vbno) => s1 = s2
    /\ \A i, j \in 1..Len(feederObjs) :
         (feederObjs[i].bucket = feederObjs[j].bucket
            /\ ~feederObjs[i].closed /\ ~feederObjs[j].closed) => i = j

\* C4: between control operations, a vbucket is listed in reqTss[bucket]
\* if and only if the controller has started a stream for it and has not
\* ended it.
C4_ReqTssIffStreaming ==
    pc = "idle" =>
        \A b \in Buckets, v \in AllVbnos :
            (b \in DOMAIN reqTss /\ v \in GetVbnos(reqTss[b]))
              <=> (\E s \in streams : s.bucket = b /\ s.vbno = v)

\* the feedback a message carries, whatever it is wrapped in
Payload(m) == [m EXCEPT !.wrap = 0]

Count(x, q) == Cardinality({i \in 1..Len(q) : Payload(q[i]) = x})

\* a step in which the current feedback wait returns
WaitReturns == pc = "wait" /\ nwaits' > nwaits

\* C5: every message a wait read from backch and skipped is on backch
\* again when the wait returns, on completion and on timeout alike.
C5_SkippedAreRequeued ==
    [][WaitReturns =>
         \A i \in 1..Len(op.msgs) :
            Count(Payload(op.msgs[i]), backch') >= Count(Payload(op.msgs[i]), op.msgs)]_vars

\* a wait returned and left a message it had skipped on backch
C5_Witness ==
    /\ ret # NoRet
    /\ \E i \in 1..Len(backch) : backch[i].wrap > 0

\* m is feedback of the kind, bucket and opaque the current wait is for
ForThisWait(m) ==
    m.kind = op.kind /\ m.bucket = op.bucket /\ m.opaque = op.opaque

\* C6: a re-queued message is on backch in the form it was posted in, and
\* a wait for its (bucket, opaque) and kind consumes it: no wait skips a
\* message that is for it.
C6_RequeuedIsConsumed ==
    /\ \A i \in 1..Len(backch) : backch[i].wrap = 0
    /\ pc = "wait" => \A i \in 1..Len(op.msgs) : ~ForThisWait(op.msgs[i])

\* C7: any two batch control calls (StartVbStreams, EndVbStreams) of one
\* topic carry different opaques.
C7_FreshOpaquePerCall ==
    \A i, j \in 1..Len(calls) : i # j => calls[i].opaque # calls[j].opaque

\* C8: a feedback wait returns without error only when, for every vbucket
\* it was asked to wait for, it has consumed a message of the awaited kind
\* with its (bucket, opaque) and that vbucket number; otherwise it ends by
\* the timeout, with responseTimeout.
C8_WaitCompletes ==
    [][(WaitReturns /\ ret'.err # "responseTimeout") =>
         /\ backch # <<>>
         /\ \A v \in op.asked :
              \E m \in op.consumed \cup {Head(backch)} :
                 m.wrap = 0 /\ ForThisWait(m) /\ m.vbno = v]_vars

\* start returned nil after its wait for vbuckets 0 and 1 of b1
C8_Witness ==
    /\ Returned({"start"}) /\ ret.err = "nil"
    /\ "b1" \in DOMAIN reqTss
    /\ GetVbnos(reqTss["b1"]) = {0, 1}

\* C9: when start or restartVbuckets succeeds, rollTss[bucket] has one
\* entry, with the reported seqno and vbuuid, for each requested vbucket
\* that answered ROLLBACK, and no entry for any other vbucket.
C9_RollbackExact ==
    (Returned({"start", "restartVbuckets"}) /\ ret.err = "nil") =>
        \A i \in 1..Len(ret.req) :
            LET ts == ret.req[i]
                es == rollTss[ts.bucket].entries
            IN  /\ \A k \in 1..Len(es) :
                     /\ es[k].vbno \in GetVbnos(ts) \cap RollVbnos
                     /\ es[k].seqno \in RollSeqnos
                     /\ es[k].vbuuid = bucketDetails.vbuuids[es[k].vbno]
                /\ \A k, l \in 1..Len(es) : es[k].vbno = es[l].vbno => k = l

\* C10: shutdown closes every Bucket Feeder before any KV-Data Path, every
\* KV-Data Path before any endpoint, and finch after all endpoints.
C10_ShutdownOrder ==
    LET kvs == UNION {KVIds(Cur, b) : b \in DOMAIN kvdata}
    IN  /\ (\E i \in kvs : kvObjs[i].closed) => OpenFeeders = {}
        /\ (\E a \in DOMAIN endpoints : epObjs[endpoints[a]].closed) =>
              (OpenFeeders = {} /\ OpenKVDatas = {})
        /\ finch => (OpenFeeders = {} /\ OpenKVDatas = {} /\ OpenEndpoints = {})

\* shutdown has run to its end on a topic with feeders, data paths and
\* endpoints
C10_Witness ==
    /\ finch
    /\ DOMAIN feeders # {}
    /\ DOMAIN kvdata # {}
    /\ DOMAIN endpoints # {}

\* C11: a control operation other than start, submitted to a topic that
\* has had no successful start, is not carried out: it changes no topic
\* state, makes no producer call and creates no endpoint.
C11_OnlyInRunning ==
    (Returned(ControlOps \ {"start"}) /\ ~running.ok) =>
        /\ TopicState(Cur) = ret.pre
        /\ Len(calls) = ret.trail.ncalls
        /\ Len(epObjs) = ret.trail.neps

\* C12: once finch is closed it stays closed, the gen-server stays where
\* it returned, the topic state does not change, and every public method
\* called returns the channel-closed error.
C12_ShutdownTerminal ==
    [][finch =>
         /\ finch'
         /\ pc' = pc
         /\ TopicState(Cur)' = TopicState(Cur)
         /\ (ret = NoRet /\ ret' # NoRet) => ret'.err = "closed"]_vars

C14_DelBucketsClosesFeeder ==
    (Returned({"delBuckets"}) /\ ret.err = "nil") =>
        \A i \in 1..Len(ret.req) :
            LET b == ret.req[i]
            IN  /\ feederObjs[ret.pre.feeders[b]].closed
                /\ \A a \in DOMAIN ret.pre.kvdata[b] :
                      kvObjs[ret.pre.kvdata[b][a]].closed

\* C15: after shutdown has completed, every Bucket Feeder the topic ever
\* opened, every KV-Data Path it ever created and every endpoint the
\* factory ever returned to it is closed.
C15_AllReleased ==
    finch =>
        /\ \A i \in 1..Len(feederObjs) : feederObjs[i].closed
        /\ \A i \in 1..Len(kvObjs) : kvObjs[i].closed
        /\ \A i \in 1..Len(epObjs) : epObjs[i].closed

\* C16: a successful start followed by a successful delBuckets naming
\* every bucket of the start request leaves reqTss, rollTss, feeders, kvdata
\* and engines empty.
C16_StartDelRoundTrip ==
    (/\ Returned({"delBuckets"}) /\ ret.err = "nil"
     /\ ncmds = 2 /\ running.ok
     /\ SeqToSet(ret.req) = {running.req[i].bucket : i \in 1..Len(running.req)}) =>
        /\ reqTss = EmptyMap
        /\ rollTss = EmptyMap
        /\ feeders = EmptyMap
        /\ kvdata = EmptyMap
        /\ engines = EmptyMap

\* C17: no instance-id is a key of engines[b1] and of engines[b2] for two
\* different buckets.
C17_InstanceIdsUnique ==
    \A b1, b2 \in DOMAIN engines :
        b1 # b2 => (DOMAIN engines[b1]) \cap (DOMAIN engines[b2]) = {}

\* C18: after start, addBuckets or addInstances returns nil, endpoints has
\* a handle for every address named by the router of an engine.
C18_EndpointForEveryRouter ==
    (Returned({"start", "addBuckets", "addInstances"}) /\ ret.err = "nil") =>
        \A b \in DOMAIN engines : \A u \in DOMAIN engines[b] :
            engines[b][u].raddrs \subseteq DOMAIN endpoints

\* the endpoint at address a answered Ping with true when the command
\* that has just returned began
WasLive(a) ==
    /\ a \in DOMAIN ret.pre.endpoints
    /\ epObjs[ret.pre.endpoints[a]].alive
    /\ ~epObjs[ret.pre.endpoints[a]].closed

\* C19: repairEndpoints pings a present endpoint once; when the Ping is
\* true it does not call the factory for the address and leaves the
\* handle in place; the factory is called only for addresses that are
\* absent or whose Ping is false.
C19_RepairLiveIsNoOp ==
    Returned({"repairEndpoints"}) =>
        \A a \in SeqToSet(ret.req) :
            /\ WasLive(a) =>
                  /\ ret.trail.pings[a] = 1
                  /\ a \notin ret.trail.made
                  /\ a \in DOMAIN endpoints
                  /\ endpoints[a] = ret.pre.endpoints[a]
            /\ a \in ret.trail.made => ~WasLive(a)

\* repairEndpoints returned for an address whose endpoint was live
C19_Witness ==
    /\ Returned({"repairEndpoints"})
    /\ \E a \in SeqToSet(ret.req) : WasLive(a) /\ ret.trail.pings[a] = 1

\* the evaluator map and the router map differ in size or in key set
InconsistentMaps(inst) == DOMAIN inst.evaluators # DOMAIN inst.routers

\* C20: when the evaluator map and the router map of the request differ in
\* size or in key set, start, addBuckets and addInstances return
\* inconsistentFeed, call the endpoint factory for no address, install no
\* engine and make no producer call.
C20_InconsistentRejected ==
    (Returned({"start", "addBuckets", "addInstances"})
       /\ InconsistentMaps(ret.trail.inst)) =>
        /\ ret.err = "inconsistentFeed"
        /\ ret.trail.made = {}
        /\ Len(epObjs) = ret.trail.neps
        /\ Len(calls) = ret.trail.ncalls
        /\ Len(feederObjs) = ret.trail.nfeeders
        /\ TopicState(Cur) = ret.pre

\* a request with an evaluator and no router of the same id was rejected
C20_Witness ==
    /\ Returned({"start", "addBuckets", "addInstances"})
    /\ InconsistentMaps(ret.trail.inst)
    /\ ret.err = "inconsistentFeed"

\* the bucket named by element i of the request the reply is for
ReqBucket(i) ==
    IF ret.cmd = "delBuckets" THEN ret.req[i] ELSE ret.req[i].bucket

\* the producer calls made since the replied command began
CallsOfOp == {k \in 1..Len(calls) : k > ret.trail.ncalls}

BranchMismatch(ts) ==
    ~VerifyBranch(ts, bucketDetails.vbnos, bucketDetails.vbuuids)

\* C22: when start, addBuckets or restartVbuckets returns
\* invalidVbucketBranch for a timestamp whose vbuuid disagrees with the
\* failover log, no StartVbStreams call was made and no Bucket Feeder was
\* opened for that bucket, and restartVbuckets has issued no EndVbStreams
\* for it either: the bucket's streams are left running.
C22_BranchCheckedFirst ==
    (Returned({"start", "addBuckets", "restartVbuckets"})
        /\ ret.err = "invalidVbucketBranch") =>
        \A i \in 1..Len(ret.req) :
            BranchMismatch(ret.req[i]) =>
                /\ \A k \in CallsOfOp : calls[k].bucket # ret.req[i].bucket
                /\ \A f \in 1..Len(feederObjs) :
                      f > ret.trail.nfeeders =>
                          feederObjs[f].bucket # ret.req[i].bucket
                /\ (ret.cmd = "restartVbuckets"
                      /\ ret.req[i].bucket \in DOMAIN ret.pre.reqTss) =>
                      \A v \in GetVbnos(ret.pre.reqTss[ret.req[i].bucket])
                               \cap HostedVbnos :
                          \E st \in streams :
                             st.bucket = ret.req[i].bucket /\ st.vbno = v

\* the step is one of a restartVbuckets; RestartTs is the restart timestamp
\* it is working on
RestartStep ==
    \/ pc = "wait" /\ op.cmd = "restartVbuckets"
    \/ pc = "idle" /\ op'.cmd = "restartVbuckets"
    \/ pc = "idle" /\ ret = NoRet /\ ret'.cmd = "restartVbuckets"

RestartTs == op.req[op.idx]

\* the calls the step adds
NewCalls == {k \in 1..Len(calls') : k > Len(calls)}

\* the current wait returns nil in this step: the message taken from
\* backch is the last one it waited for
WaitDone ==
    /\ WaitReturns
    /\ backch # <<>>
    /\ callb(op, Head(backch)).res = "done"

\* C23: restartVbuckets follows a fixed order per bucket. EndVbStreams is
\* issued when the command is taken and its StreamEnd wait begins;
\* StartVbStreams is issued only in the step in which the StreamEnd wait
\* has completed, after every KV-Data Path of the bucket got UpdateTs with
\* the restart timestamp, and the StreamRequest wait begins; the data
\* paths' timestamps change in no other step; reqTss[bucket] and
\* rollTss[bucket] change only in the step in which the StreamRequest
\* wait has completed, to the union with the restart timestamp and to the
\* rollback timestamp of that wait.
C23_RestartOrder ==
    [][RestartStep =>
         /\ \A k \in NewCalls :
              /\ calls'[k].kind = "StreamEnd" =>
                    /\ pc = "idle"
                    /\ NewCalls = {k}
                    /\ pc' = "wait" /\ op'.kind = "StreamEnd"
                    /\ op'.asked = GetVbnos(op'.req[op'.idx])
              /\ calls'[k].kind = "StreamRequest" =>
                    /\ pc = "wait" /\ op.kind = "StreamEnd" /\ WaitDone
                    /\ NewCalls = {k}
                    /\ \A i \in KVIds(Cur, RestartTs.bucket) :
                          kvObjs'[i].ts = RestartTs
                    /\ pc' = "wait" /\ op'.kind = "StreamRequest"
                    /\ op'.asked = GetVbnos(RestartTs)
         /\ kvObjs' # kvObjs =>
              pc = "wait" /\ op.kind = "StreamEnd" /\ WaitDone
         /\ (reqTss' # reqTss \/ rollTss' # rollTss) =>
              /\ pc = "wait" /\ op.kind = "StreamRequest" /\ WaitDone
              /\ reqTss' = MapPut(reqTss, RestartTs.bucket,
                                  Union(reqTss[RestartTs.bucket], RestartTs))
              /\ rollTss' = MapPut(rollTss, RestartTs.bucket,
                                   callb(op, Head(backch)).op.rollTs)
         /\ (ret = NoRet /\ ret'.cmd = "restartVbuckets" /\ ret'.err = "nil") =>
              /\ pc = "wait" /\ op.kind = "StreamRequest"
              /\ reqTss'[RestartTs.bucket] =
                    Union(reqTss[RestartTs.bucket], RestartTs)]_vars

\* restartVbuckets of vbucket 0 succeeded on a topic that streams vbuckets
\* 0 and 1 of b1: the data path holds the restart timestamp
C23_Witness ==
    /\ Returned({"restartVbuckets"}) /\ ret.err = "nil"
    /\ GetVbnos(ret.req[1]) = {0}
    /\ "b1" \in DOMAIN reqTss
    /\ GetVbnos(reqTss["b1"]) = {0, 1}
    /\ \A i \in KVIds(Cur, "b1") : kvObjs[i].ts = ret.req[1]
    /\ Len(calls) = 3

\* C24: a feedback wait for an empty vbucket list returns at once with no
\* error and an empty rollback timestamp: the gen-server never blocks in
\* the select of a wait that was asked for no vbucket (so no timeout can
\* end it), and a command whose first wait returns in the step that takes
\* the command has read nothing from backch, does not reply
\* responseTimeout, and when it succeeds leaves an empty rollTss[bucket]
\* for every timestamp of the request that names no vbucket.
C24_EmptyWaitReturnsAtOnce ==
    [][/\ pc' = "wait" => op'.asked # {}
       /\ (pc = "idle" /\ nwaits' > nwaits) =>
            /\ backch' = backch
            /\ ret' # NoRet => ret'.err # "responseTimeout"
            /\ (ret' # NoRet /\ ret'.err = "nil"
                  /\ ret'.cmd \in {"start", "addBuckets"}) =>
                  \A i \in 1..Len(ret'.req) :
                     GetVbnos(ret'.req[i]) = {} =>
                        rollTss'[ret'.req[i].bucket].entries = <<>>]_vars

\* start for b1 with no vbucket returned nil without any feedback having
\* been posted or read
C24_Witness ==
    /\ Returned({"start"}) /\ ret.err = "nil"
    /\ GetVbnos(ret.req[1]) = {}
    /\ nwaits = 1
    /\ backch = <<>>
    /\ Len(calls) = 1
    /\ rollTss["b1"].entries = <<>>

\* ------------------------------------- properties of the Stream Manager

\* run() has handled a topology change; run holds what the handling did
Handled == run.pc = "handled"

\* the state in topology t of the instance with that id, "" if t has none
StateOf(t, id) ==
    LET xs == {x \in UNION {SeqToSet(t.Definitions[i].Instances) :
                               i \in 1..Len(t.Definitions)} : x.InstId = id}
    IN  IF xs = {} THEN "" ELSE (CHOOSE x \in xs : TRUE).State

\* C25: handling a topology for bucket B whose Version equals the Version
\* of the stored topologies[B] issues no AddIndexToStream and no
\* DeleteIndexFromStream call on any stream, whatever the instance states.
C25_EqualVersionNoCalls ==
    (run.pc \in {"locked", "handled"}
        /\ run.old # NilTopology /\ run.old.Version = run.new.Version) =>
        run.calls = <<>> /\ run.call = NoCall

\* a topology of the stored version was handled with both streams open,
\* in which instance 1 is READY and was CREATED in the stored one and
\* instance 2 is DELETED and was READY
C25_Witness ==
    /\ Handled
    /\ run.old # NilTopology /\ run.old.Version = run.new.Version
    /\ run.seen = StreamIds
    /\ StateOf(run.old, 1) = "CREATED" /\ StateOf(run.new, 1) = "READY"
    /\ StateOf(run.old, 2) = "READY" /\ StateOf(run.new, 2) = "DELETED"

\* the instances of topology t, each with the name of its definition
InstancesOf(t) ==
    UNION {{[defn |-> t.Definitions[i].Name, instId |-> x.InstId, state |-> x.State] :
               x \in SeqToSet(t.Definitions[i].Instances)} :
             i \in 1..Len(t.Definitions)}

\* the instances of new that are in one of the states to and were in one
\* of the states from in old
Transitioned(old, new, from, to) ==
    {[defn |-> x.defn, instId |-> x.instId] :
        x \in {y \in InstancesOf(new) :
                  /\ y.state \in to
                  /\ StateOf(old, y.instId) \in from
                  /\ StateOf(old, y.instId) # y.state}}

\* the instances of new that are in one of the states to and that old does
\* not have
Appeared(old, new, to) ==
    {[defn |-> x.defn, instId |-> x.instId] :
        x \in {y \in InstancesOf(new) :
                  y.state \in to /\ StateOf(old, y.instId) = ""}}

\* the calls of that kind the handling made on that stream
CallsOn(kind, streamId) ==
    {k \in 1..Len(run.calls) :
        run.calls[k].kind = kind /\ run.calls[k].streamId = streamId}

\* the handled topology has a version the stored one had not
NewVersion == run.old = NilTopology \/ run.old.Version # run.new.Version

\* nothing kept the handling from its calls: the local address was
\* found, and no stream was closed and the manager was not closed while
\* the handling went on
Undisturbed == run.err \notin {"addrError", "streamNotOpen"} /\ ~isClosed

\* C26: on a topology change with a new Version while MAINT_STREAM is
\* open, the add set is the instances that went from CREATED to READY
\* (with no old topology, every instance in READY; an instance in READY
\* that the old topology does not have may be added too); when it is not
\* empty exactly one AddIndexToStream(MAINT_STREAM, [B], instances, nil)
\* call is made and it carries exactly those instances, each once.
C26_MaintAddSet ==
    (Handled /\ "MAINT_STREAM" \in run.seen /\ NewVersion) =>
        LET may  == Appeared(run.old, run.new, {"READY"})
            must == Transitioned(run.old, run.new, {"CREATED"}, {"READY"})
                      \cup (IF run.old = NilTopology THEN may ELSE {})
            adds == CallsOn("AddIndexToStream", "MAINT_STREAM")
        IN  /\ Cardinality(adds) <= 1
            /\ \A k \in adds :
                  /\ run.calls[k].bucket = run.new.Bucket
                  /\ must \subseteq SeqToSet(run.calls[k].instances)
                  /\ SeqToSet(run.calls[k].instances) \subseteq must \cup may
                  /\ Len(run.calls[k].instances) =
                        Cardinality(SeqToSet(run.calls[k].instances))
            /\ (must # {} /\ Undisturbed) => adds # {}
            /\ must \cup may = {} => adds = {}

\* the instance-ids of a set of instances
IdsOf(xs) == {x.instId : x \in xs}

\* C27: on a topology change with a new Version while MAINT_STREAM is
\* open, the ids passed to DeleteIndexFromStream(MAINT_STREAM, [B], ids)
\* are exactly the ids of the instances that went from READY or ACTIVE to
\* DELETED, each once; an instance that is in DELETED in the new topology
\* and was not READY or ACTIVE in the old one is not among them.
C27_MaintDeleteSet ==
    (Handled /\ "MAINT_STREAM" \in run.seen /\ NewVersion) =>
        \A k \in CallsOn("DeleteIndexFromStream", "MAINT_STREAM") :
            /\ run.calls[k].bucket = run.new.Bucket
            /\ SeqToSet(run.calls[k].instances) =
                  IdsOf(Transitioned(run.old, run.new, {"READY", "ACTIVE"},
                                     {"DELETED"}))
            /\ Len(run.calls[k].instances) =
                  Cardinality(SeqToSet(run.calls[k].instances))

\* C28: on a topology change while INIT_STREAM is open, the ids passed to
\* DeleteIndexFromStream(INIT_STREAM, [B], ids) are exactly the ids of the
\* instances whose state changed into DELETED or ACTIVE (an instance in
\* one of these states that the old topology does not have may be among
\* them), each once; an instance that was ACTIVE or DELETED in the old
\* topology and is unchanged is not among them.
C28_InitDeleteSet ==
    (Handled /\ "INIT_STREAM" \in run.seen) =>
        \A k \in CallsOn("DeleteIndexFromStream", "INIT_STREAM") :
            LET ids == SeqToSet(run.calls[k].instances)
                must == IdsOf(Transitioned(run.old, run.new, IndexStates,
                                           {"DELETED", "ACTIVE"}))
                may  == IdsOf(Appeared(run.old, run.new, {"DELETED", "ACTIVE"}))
            IN  /\ run.calls[k].bucket = run.new.Bucket
                /\ must \subseteq ids
                /\ ids \subseteq must \cup may
                /\ Len(run.calls[k].instances) = Cardinality(ids)

\* the list accepts the state: a nil list accepts every state
Accepts(possibleStates, state) ==
    possibleStates.isNil \/ state \in SeqToSet(possibleStates.list)

\* C29: addInstancesToChangeList(old, new, fromStates, toStates) selects a
\* new instance I if and only if state(I) is accepted by toStates and
\* every old instance O with the id of I has a state accepted by
\* fromStates and other than state(I); a nil list accepts any state, and
\* an instance with no old instance of its id is selected on toStates
\* alone. The selected instances are in the order of new, each once.
C29_DiffRule ==
    diff.applied =>
        LET new == diff.newDefn.Instances
            old == diff.oldDefn.Instances
            rule(I) ==
                /\ Accepts(diff.toStates, I.State)
                /\ \A O \in SeqToSet(old) :
                      O.InstId = I.InstId =>
                          Accepts(diff.fromStates, O.State) /\ O.State # I.State
        IN  /\ \A i \in 1..Len(new) :
                  rule(new[i]) <=>
                     \E k \in 1..Len(diff.changes) : diff.changes[k].selected = new[i]
            /\ \A k, l \in 1..Len(diff.changes) :
                  k < l => diff.changes[k].selected.InstId
                             < diff.changes[l].selected.InstId
            /\ \A k \in 1..Len(diff.changes) :
                  diff.changes[k].definition = diff.newDefn

\* the rule was applied with a nil toStates to two READY instances of
\* which the old definition has the first in CREATED and the second in
\* READY: the first is selected and the second is not
C29_Witness ==
    /\ diff.applied
    /\ diff.toStates.isNil
    /\ diff.fromStates = States(<<"CREATED">>)
    /\ diff.newDefn.Instances = <<Inst(1, "READY"), Inst(2, "READY")>>
    /\ diff.oldDefn.Instances = <<Inst(1, "CREATED"), Inst(2, "READY")>>
    /\ Len(diff.changes) = 1
    /\ diff.changes[1].selected = Inst(1, "READY")

\* C30: handleTopologyChange sets topologies[B] to the new topology only
\* after the calls for the maintenance stream and for the init stream
\* have succeeded: topologies is as it was when the event was taken while
\* a call is still to be made and when the handling ended in an error,
\* which it does when an admin call returned one; when the handling
\* ended without error only topologies[B] has changed, to the new
\* topology.
C30_StoredAfterBothSucceed ==
    /\ run.pc = "locked" => topologies = run.pre
    /\ Handled =>
          /\ (\E k \in 1..Len(run.calls) : run.calls[k].err = "err") =>
                run.err # "nil"
          /\ run.err # "nil" => topologies = run.pre
          /\ run.err = "nil" =>
                topologies = MapPut(run.pre, run.new.Bucket, run.new)

\* the second admin call of a handling returned an error after the first
\* had succeeded: topologies[b1] is the old topology
C30_Witness ==
    /\ Handled
    /\ Len(run.calls) = 2
    /\ run.calls[1].err = "ok" /\ run.calls[2].err = "err"
    /\ run.old # NilTopology
    /\ topologies["b1"] = run.old
    /\ run.new # run.old

\* the instances of new that stream streamId is to stop: those in DELETED
\* (for the init stream also those in ACTIVE) that were in another state in
\* old or that old does not have
DeleteSet(streamId, old, new) ==
    LET to == IF streamId = "INIT_STREAM" THEN {"DELETED", "ACTIVE"}
              ELSE {"DELETED"}
    IN  Transitioned(old, new, IndexStates, to) \cup Appeared(old, new, to)

\* C39: a topology change in which no instance moves into a delete state
\* of a stream makes no DeleteIndexFromStream call on that stream.
C39_EmptyDeleteSetNoCall ==
    Handled =>
        \A streamId \in run.seen :
            DeleteSet(streamId, run.old, run.new) = {} =>
                CallsOn("DeleteIndexFromStream", streamId) = {}

\* the instances a call of that kind on that stream is to carry: those of
\* the change records the diff rule makes for the handled topology, each
\* record read as the instance and the definition it was made for
OwnInstances(kind, streamId) ==
    LET oldDefns == [i \in 1..Len(run.new.Definitions) |->
                       FindIndexDefinition(run.old, run.new.Bucket,
                                           run.new.Definitions[i].Name)]
        from == IF kind = "AddIndexToStream" THEN States(<<"CREATED">>)
                ELSE IF streamId = "MAINT_STREAM" THEN States(<<"ACTIVE", "READY">>)
                ELSE NilStates
        to   == IF kind = "AddIndexToStream" THEN States(<<"READY">>)
                ELSE IF streamId = "MAINT_STREAM" THEN States(<<"DELETED">>)
                ELSE States(<<"DELETED", "ACTIVE">>)
        cs   == collectChanges(oldDefns, run.new, from, to, "perIteration")
    IN  [k \in 1..Len(cs) |->
           IF kind = "AddIndexToStream"
             THEN [defn |-> cs[k].definition.Name, instId |-> cs[k].selected.InstId]
             ELSE cs[k].selected.InstId]

\* C40: in a topology change each change record refers to the instance and
\* the definition it was made for: the list of every AddIndexToStream and
\* DeleteIndexFromStream call holds each qualifying instance once and no
\* instance in place of another.
C40_OwnInstancePerRecord ==
    Handled =>
        \A k \in 1..Len(run.calls) :
            run.calls[k].instances =
                OwnInstances(run.calls[k].kind, run.calls[k].streamId)

\* ------------------------------------------ further properties of the feed

\* the StartVbStreams / EndVbStreams call the current wait follows
OwnCall == Len(calls)

\* C35: a wait counts only feedback produced by its own StartVbStreams /
\* EndVbStreams call, never feedback of an earlier operation that has
\* returned (with responseTimeout, say): when a wait completes, the
\* feedback of its own call has been posted for every awaited vbucket.
C35_OwnFeedbackOnly ==
    [][(WaitReturns /\ ret'.err # "responseTimeout") =>
         \A p \in pending : ~(p.call = OwnCall /\ p.vbno \in op.asked)]_vars

\* C37: in start, addBuckets and restartVbuckets the vbuckets whose
\* feedback a wait awaits are the vbuckets passed to the Bucket Feeder in
\* the StartVbStreams / EndVbStreams call the wait follows, which are the
\* request's vbuckets that the topic's producer nodes host.
C37_AwaitedAreRequested ==
    pc = "wait" =>
        /\ calls[OwnCall].kind = op.kind /\ calls[OwnCall].bucket = op.bucket
        /\ op.asked = GetVbnos(calls[OwnCall].ts)

\* the feed with the timer of every feedback wait firing: time.After of
\* waitStreamRequests and waitStreamEnds sends on its channel, and the
\* select of waitOnFeedback takes it unless the wait has ended before
SpecLive == Init /\ [][Next]_vars /\ WF_vars(WaitTimeout)

\* C36: every control command the gen-server has taken sends its reply: a
\* command that is in a feedback wait leaves it by completion or timeout,
\* the re-queue after the wait does not block the gen-server, and the
\* reply is sent (unless a panic unwinds the command into shutdown).
C36_EveryCommandReplies == (pc = "wait") ~> (ret # NoRet \/ InShutdown)

\* ------------------------------------ properties of the scan coordinator

CbExited == cb.g = "exited"

C38_NoSelfDeadlock == ~mutex.relock

\* the place of a step in the startup order: the port of MAINT_STREAM,
\* the topology store, the initial add and delete calls, the registration
StartupRank(step) ==
    CASE step = "openMaint" -> 1
      [] step = "load"      -> 2
      [] step = "add"       -> 3
      [] step = "delete"    -> 4
      [] step = "register"  -> 5

\* C31: run() opens MAINT_STREAM, loads the topology store, makes the
\* initial add and delete calls and only then registers for the topology
\* changes: the steps it has taken are in that order, and it has
\* registered only after the port was opened and the store was loaded
C31_StartupOrder ==
    /\ \A i, j \in 1..Len(run.boot) :
         i < j => StartupRank(run.boot[i]) < StartupRank(run.boot[j])
    /\ "register" \in SeqToSet(run.boot) =>
         {"openMaint", "load"} \subseteq SeqToSet(run.boot)

\* run() takes a topology change it can decode and handleTopologyChange
\* reads s.streams
HandlerReadsStreams ==
    /\ run.pc = "listen"
    /\ run'.pc \in {"locked", "handled", "crashed"}

\* C32: every read of s.streams is made under s.mutex: the read that
\* handleTopologyChange makes for an event is never made while
\* StartStream, CloseStream or Close holds the lock on another goroutine
C32_StreamsReadUnderLock ==
    [][HandlerReadsStreams => mutex.holder \notin Writers]_vars

\* C33: a panic raised while run() handles a topology change is recovered
\* in the handler of that event: the event is skipped (s.topologies is as
\* it was when the event was taken), run() does not hold s.mutex, and
\* run() goes back to its select, where it takes the next event or stopch
C33_PanicRecovered ==
    run.err = "panic" =>
        /\ Handled
        /\ mutex.holder # "run"
        /\ topologies = run.pre
        /\ ENABLED Listen

\* an admin call made under the lock has panicked
C33_Witness ==
    /\ Handled
    /\ run.err = "panic"
    /\ Len(run.calls) >= 1
    /\ run.calls[Len(run.calls)].err = "panic"
    /\ mutex = NoHolder

====
